---- MODULE Spec2Model ----
(***************************************************************************)
(* Model of the QuestionPy SDK question UI renderer                        *)
(* (src/questionpy_sdk/webserver/question_ui.py).                          *)
(*                                                                         *)
(* A document is a tree of nodes.  Every node is a record                  *)
(*   id    identity of the node (lxml proxies compare by identity)         *)
(*   kind  "element", "pi" or "comment"                                    *)
(*   ns    "xhtml", "qpy" or "" (no namespace)                             *)
(*   tag   local name (the target of a processing instruction)             *)
(*   attrs sequence of <<name, value>> pairs in insertion order; the names *)
(*         of attributes in the QuestionPy namespace start with "qpy:"     *)
(*   text  text before the first child, "" when there is none              *)
(*   cdata TRUE when text was set through etree.CDATA                      *)
(*   tail  text that follows the node, "" when there is none               *)
(*   kids  child nodes in document order                                   *)
(* Optional values: <<>> is None, <<v>> is the value v.                    *)
(***************************************************************************)
EXTENDS Integers, Sequences, FiniteSets, TLC

VARIABLES xml, placeholders, seed, question, rng, attempt, options,
          pc, part, work, stages, log, result, calls, fresh, bySeed, byPart,
          metadata, calc, threads

vars == <<xml, placeholders, seed, question, rng, attempt, options,
          pc, part, work, stages, log, result, calls, fresh, bySeed, byPart,
          metadata, calc, threads>>

\* ------------------------------------------------------------------ bounds
\* render calls explored on one renderer / in one process
MaxCalls == 2
\* number of states of the process-wide pseudo-random generator
RngMod == 5
\* ids of nodes created for the node with id i start at i * IdStride
IdStride == 100

\* ------------------------------------------------------------ python helpers
None == <<>>
Some(v) == <<v>>

XHTML_NAMESPACE == "http://www.w3.org/1999/xhtml"

RECURSIVE SeqMax(_, _)
SeqMax(s, i) == IF i > Len(s) THEN 0
                ELSE LET r == SeqMax(s, i + 1) IN IF s[i] > r THEN s[i] ELSE r

\* dict.get(k): None when the key is missing
DictGet(d, k) == IF k \in DOMAIN d THEN Some(d[k]) ELSE None

\* x in list
InList(x, l) == \E i \in 1..Len(l) : l[i] = x

\* str.strip().split() on the strings the documents use: the
\* whitespace-separated words of the string
Split(s) ==
    CASE s = "" -> <<>>
      [] s = "teacher scorer" -> <<"teacher", "scorer">>
      [] s = "developer  proctor" -> <<"developer", "proctor">>
      [] s = "param clean" -> <<"param", "clean">>
      [] s = "param noclean" -> <<"param", "noclean">>
      [] s = "param plain" -> <<"param", "plain">>
      [] s = "param PLAIN" -> <<"param", "PLAIN">>
      [] s = "param raw" -> <<"param", "raw">>
      [] s = "missing plain" -> <<"missing", "plain">>
      [] s = "form-control qpy-input" -> <<"form-control", "qpy-input">>
      [] s = "btn big" -> <<"btn", "big">>
      [] s = "form-control big" -> <<"form-control", "big">>
      [] s = "widget noclean" -> <<"widget", "noclean">>
      [] s = "btn btn-primary qpy-input" -> <<"btn", "btn-primary", "qpy-input">>
      [] s = "btn big btn-primary qpy-input" -> <<"btn", "big", "btn-primary", "qpy-input">>
      [] s = "form-control big qpy-input" -> <<"form-control", "big", "qpy-input">>
      [] OTHER -> <<s>>

\* str.lower() on the mode words the documents use
Lower(s) ==
    CASE s = "PLAIN" -> "plain"
      [] s = "Clean" -> "clean"
      [] OTHER -> s

\* ------------------------------------------------------------------ attributes
HasAttr(a, k) == \E i \in 1..Len(a) : a[i][1] = k

\* element.get(k): None when the attribute is missing
AttrGet(a, k) ==
    IF HasAttr(a, k) THEN Some(a[CHOOSE i \in 1..Len(a) : a[i][1] = k][2]) ELSE None

\* element.get(k, d)
AttrGetD(a, k, d) == IF HasAttr(a, k) THEN AttrGet(a, k)[1] ELSE d

\* element.set(k, v): an existing attribute keeps its place
AttrSet(a, k, v) ==
    IF HasAttr(a, k)
    THEN [i \in 1..Len(a) |-> IF a[i][1] = k THEN <<k, v>> ELSE a[i]]
    ELSE Append(a, <<k, v>>)

\* element.attrib.pop(k) / del element.attrib[k]
AttrPop(a, k) == SelectSeq(a, LAMBDA p : p[1] # k)

\* ------------------------------------------------------------------ nodes
Node(kind, ns, tag, attrs, text, kids, tail) ==
    [id |-> 0, kind |-> kind, ns |-> ns, tag |-> tag, attrs |-> attrs,
     text |-> text, cdata |-> FALSE, tail |-> tail, kids |-> kids]

\* an element of the XHTML namespace, of the QuestionPy namespace, of no namespace
X(tag, attrs, text, kids, tail) == Node("element", "xhtml", tag, attrs, text, kids, tail)
Q(tag, attrs, text, kids, tail) == Node("element", "qpy", tag, attrs, text, kids, tail)
N(tag, attrs, text, kids, tail) == Node("element", "", tag, attrs, text, kids, tail)
\* <?p text?> and <!--text-->
PI(text, tail) == Node("pi", "", "p", <<>>, text, <<>>, tail)
Comment(text, tail) == Node("comment", "", "", <<>>, text, <<>>, tail)

IsElement(n) == n.kind = "element"
IsX(n, tag) == n.kind = "element" /\ n.ns = "xhtml" /\ n.tag = tag
IsQ(n, tag) == n.kind = "element" /\ n.ns = "qpy" /\ n.tag = tag

RECURSIVE Size(_)
RECURSIVE SumSizes(_, _)
\* number of nodes of the subtree
Size(n) == 1 + SumSizes(n.kids, Len(n.kids))
SumSizes(ks, k) == IF k = 0 THEN 0 ELSE Size(ks[k]) + SumSizes(ks, k - 1)

RECURSIVE Relabel(_, _)
\* the subtree with identities base, base + 1, ... in document order
Relabel(n, base) ==
    [n EXCEPT !.id = base,
              !.kids = [i \in 1..Len(n.kids) |->
                          Relabel(n.kids[i], base + 1 + SumSizes(n.kids, i - 1))]]

RECURSIVE Flatten(_)
RECURSIVE FlattenKids(_, _)
\* the node and its descendants in document order
Flatten(n) == <<n>> \o FlattenKids(n.kids, 1)
FlattenKids(ks, i) ==
    IF i > Len(ks) THEN <<>> ELSE Flatten(ks[i]) \o FlattenKids(ks, i + 1)

\* the descendants of the node in document order (".//" and "//" below a root)
Descendants(n) == Tail(Flatten(n))

Ids(n) == {Flatten(n)[i].id : i \in 1..Len(Flatten(n))}

\* the node with the given identity in the tree
Find(t, id) ==
    LET f == Flatten(t) IN f[CHOOSE i \in 1..Len(f) : f[i].id = id]

RECURSIVE Subst(_, _, _)
RECURSIVE SubstKids(_, _, _, _)
\* the tree with the node `id` replaced by the nodes of s, wherever it is below
\* t: s = <<>> is parent.remove(node) (lxml removes the tail text with the
\* node), s = <<m>> is parent.replace(node, m) or a change of the node itself.
\* A node that is no longer in the tree leaves the tree unchanged.
Subst(t, id, s) == [t EXCEPT !.kids = SubstKids(t.kids, 1, id, s)]
SubstKids(ks, i, id, s) ==
    IF i > Len(ks) THEN <<>>
    ELSE (IF ks[i].id = id THEN s ELSE <<Subst(ks[i], id, s)>>)
         \o SubstKids(ks, i + 1, id, s)

InTree(t, id) == id \in Ids(t)

\* the node `id`, where it is in the tree, with its attributes changed in place
SetAttrs(t, id, a) ==
    IF InTree(t, id) THEN Subst(t, id, <<[Find(t, id) EXCEPT !.attrs = a]>>) ELSE t

\* ---------------------------------------------------------------- serialization
QName(n) == IF n.ns = "qpy" THEN "qpy:" \o n.tag ELSE n.tag

RECURSIVE AttrsToString(_, _)
AttrsToString(a, i) ==
    IF i > Len(a) THEN ""
    ELSE " " \o a[i][1] \o "=\"" \o a[i][2] \o "\"" \o AttrsToString(a, i + 1)

TextToString(n) ==
    IF n.cdata /\ n.text # "" THEN "<![CDATA[" \o n.text \o "]]>" ELSE n.text

RECURSIVE NodeToString(_, _)
RECURSIVE KidsToString(_, _)
\* etree.tostring(node, with_tail=wt); the texts of the documents hold no
\* character that XML escapes, and the indentation of pretty_print is left out
NodeToString(n, wt) ==
    LET body ==
          CASE n.kind = "comment" -> "<!--" \o n.text \o "-->"
            [] n.kind = "pi" ->
                 "<?" \o n.tag \o (IF n.text = "" THEN "" ELSE " " \o n.text) \o "?>"
            [] OTHER ->
                 LET open == "<" \o QName(n) \o AttrsToString(n.attrs, 1)
                 IN  IF n.text = "" /\ n.kids = <<>> THEN open \o "/>"
                     ELSE open \o ">" \o TextToString(n) \o KidsToString(n.kids, 1)
                          \o "</" \o QName(n) \o ">"
    IN  body \o (IF wt THEN n.tail ELSE "")
KidsToString(ks, i) ==
    IF i > Len(ks) THEN "" ELSE NodeToString(ks[i], TRUE) \o KidsToString(ks, i + 1)

\* ------------------------------------------------------------- string tables
\* the values of the placeholder map of the renderers
RawParam == "Value of param <b>one</b>.<script>danger</script>"
RawDescription == "My simple description."
RawWidget == "<input type=\"submit\" name=\"txt\"/>"

\* etree.fromstring on the strings the renders parse: None for a string that
\* is not well-formed XML (lxml raises XMLSyntaxError), else the parsed tree.
\* A string without namespace declarations parses to elements of no namespace.
FromString(s) ==
    CASE s = "<p>Value of param <b>one</b>.</p>" ->
           Some(N("p", <<>>, "Value of param ", <<N("b", <<>>, "one", <<>>, ".")>>, ""))
      [] s = "<p>My simple description.</p>" ->
           Some(N("p", <<>>, "My simple description.", <<>>, ""))
      [] s = "<string>Value of param <b>one</b>.</string>" ->
           Some(N("string", <<>>, "Value of param ",
                  <<N("b", <<>>, "one", <<>>, ".")>>, ""))
      [] s = "<string>Value of param <b>one</b>.<script>danger</script></string>" ->
           Some(N("string", <<>>, "Value of param ",
                  <<N("b", <<>>, "one", <<>>, "."),
                    N("script", <<>>, "danger", <<>>, "")>>, ""))
      [] s = "<string>My simple description.</string>" ->
           Some(N("string", <<>>, "My simple description.", <<>>, ""))
      [] s = "<string><input type=\"submit\" name=\"txt\"/></string>" ->
           Some(N("string", <<>>, "",
                  <<N("input", <<<<"type", "submit">>, <<"name", "txt">>>>, "", <<>>, "")>>,
                  ""))
      [] OTHER -> None

\* lxml.html.clean.Cleaner().clean_html on the placeholder values: scripts are
\* dropped with their content and the result is wrapped in <p> (or <div>)
CleanHtml(raw) ==
    CASE raw = RawParam -> "<p>Value of param <b>one</b>.</p>"
      [] raw = RawDescription -> "<p>My simple description.</p>"
      [] OTHER -> "<p>" \o raw \o "</p>"

\* ------------------------------------------------------------------ documents
FB(kind) == <<<<"qpy:feedback", kind>>>>
ROLE(r) == <<<<"qpy:if-role", r>>>>

\* inline feedback of both kinds, nested feedback, a feedback kind the renderer
\* does not know; two general-feedback parts, no right-answer part
FeedbacksDoc ==
    Q("question", <<>>, "", <<
      Q("formulation", <<>>, "Lead text", <<
        X("span", <<>>, "No feedback", <<>>, " "),
        X("span", FB("general"), "General feedback",
          <<X("em", FB("specific"), "nested", <<>>, "")>>, ""),
        X("span", FB("specific"), "Specific feedback",
          <<X("em", FB("general"), "deep", <<>>, "")>>, "t"),
        X("span", FB("other"), "Other", <<>>, "")>>, ""),
      Q("general-feedback", <<>>, "", <<X("span", <<>>, "GF1", <<>>, "")>>, ""),
      Q("general-feedback", <<>>, "", <<X("span", <<>>, "GF2", <<>>, "")>>, ""),
      Q("specific-feedback", <<>>, "",
        <<X("span", FB("general"), "SF", <<>>, "")>>, "")>>, "")

\* role-dependent elements, one nested in another, one combined with feedback
IfRoleDoc ==
    Q("question", <<>>, "", <<
      Q("formulation", <<>>, "", <<
        X("div", ROLE("teacher"), "You're a teacher!", <<>>, ""),
        X("div", ROLE("developer  proctor"), "You're a developer!", <<>>, "x"),
        X("div", ROLE("teacher scorer"), "Outer",
          <<X("span", ROLE("proctor"), "Inner", <<>>, "")>>, ""),
        X("div", ROLE("proctor"), "P",
          <<X("span", ROLE("teacher"), "T", <<>>, "")>>, ""),
        X("div", ROLE("") \o FB("general"), "Nobody", <<>>, ""),
        X("div", <<>>, "Everyone", <<>>, "")>>, ""),
      Q("right-answer", <<>>, "", <<X("span", ROLE("teacher"), "RA", <<>>, "")>>, "")>>,
      "")

\* placeholders in every mode, of a missing key, without text
PlaceholderDoc ==
    Q("question", <<>>, "", <<
      Q("formulation", <<>>, "", <<
        X("div", <<>>, "", <<PI("description", "")>>, ""),
        X("span", <<>>, "By default cleaned parameter: ", <<PI("param", "")>>, ""),
        X("span", <<>>, "Explicitly cleaned parameter: ",
          <<PI("param clean", "")>>, ""),
        X("span", <<>>, "Noclean parameter: ", <<PI("param noclean", " tail")>>, ""),
        X("span", <<>>, "Plain parameter: ", <<PI("param plain", "")>>, ""),
        X("span", <<>>, "Upper: ", <<PI("param PLAIN", "")>>, ""),
        X("span", <<>>, "Missing: ",
          <<PI("missing", " after"), X("b", <<>>, "kept", <<>>, ""),
            PI("missing plain", "")>>, ""),
        PI("", "")>>, ""),
      Q("general-feedback", FB("general"), "G", <<PI("param noclean", "")>>, "")>>, "")

\* a placeholder whose mode word is none of clean, noclean, plain
BadModeDoc ==
    Q("question", <<>>, "", <<
      Q("formulation", <<>>, "", <<
        X("span", <<>>, "", <<PI("description", ""), PI("param raw", "")>>, "")>>, ""),
      Q("specific-feedback", <<>>, "", <<>>, "")>>, "")

\* a document without formulation
NoFormulationDoc ==
    Q("question", <<>>, "", <<
      Q("general-feedback", <<>>, "text only", <<>>, ""),
      Q("right-answer", <<>>, "",
        <<X("span", FB("specific"), "RA", <<>>, ""), Comment("c", "")>>, "")>>, "")

\* shuffled choices with their index markers
Choice(v, fmt) ==
    X("label", <<>>, "", <<
        X("input", <<<<"type", "radio">>, <<"name", "choice">>, <<"value", v>>>>,
          "", <<>>, ""),
        Q("shuffled-index", fmt, "", <<>>, ". " \o v)>>, "")

ShuffleDoc ==
    Q("question", <<>>, "", <<
      Q("formulation", <<>>, "", <<
        X("fieldset", <<<<"qpy:shuffle-contents", "">>>>, "", <<
            Choice("A", <<<<"format", "iii">>>>),
            Choice("B", <<<<"format", "abc">>>>),
            Choice("C", <<>>)>>, ""),
        X("span", FB("general"), "fb", <<>>, "")>>, ""),
      Q("general-feedback", <<>>, "", <<
        X("ul", <<<<"qpy:shuffle-contents", "">>>>, "", <<
            X("li", <<>>, "", <<
                Q("shuffled-index", <<<<"format", "III">>>>, "", <<>>, ") one")>>, ""),
            X("li", <<>>, "", <<
                X("b", <<>>, "", <<
                    Q("shuffled-index", <<<<"format", "ABC">>>>, "", <<>>, ".")>>,
                  " two")>>, ""),
            X("li", <<>>, "", <<
                Q("shuffled-index", <<<<"format", "123">>>>, "", <<>>, ""),
                Q("shuffled-index", <<<<"format", "xyz">>>>, "", <<>>, " three")>>,
              "")>>, "")>>,
        "")>>, "")

\* form controls of every kind the passes treat, one inserted by a placeholder;
\* elements of the QuestionPy namespace, of no namespace, and a comment
ControlsDoc ==
    Q("question", <<>>, "", <<
      Q("formulation", <<>>, "", <<
        X("input", <<<<"type", "radio">>, <<"name", "choice">>, <<"value", "A">>,
                     <<"checked", "checked">>>>, "", <<>>, ""),
        X("input", <<<<"type", "radio">>, <<"name", "choice">>, <<"value", "B">>>>,
          "", <<>>, ""),
        X("input", <<<<"type", "checkbox">>, <<"name", "choice">>>>, "", <<>>, ""),
        X("input", <<<<"name", "txt">>, <<"required", "required">>,
                     <<"pattern", "^[a-z]+$">>, <<"minlength", "5">>,
                     <<"maxlength", "">>, <<"min", "17">>, <<"max", "42">>>>,
          "", <<>>, ""),
        X("select", <<<<"name", "sel">>, <<"required", "">>>>, "", <<
            X("option", <<<<"value", "1">>>>, "One", <<>>, ""),
            X("option", <<<<"value", "2">>>>, "Two", <<>>, "")>>, ""),
        X("select", <<<<"name", "sel">>>>, "", <<
            X("option", <<>>, "1", <<>>, ""),
            X("option", <<>>, "2", <<>>, "")>>, ""),
        X("select", <<<<"name", "sel2">>>>, "", <<
            X("option", <<>>, "1", <<>>, ""),
            X("option", <<>>, "2", <<>>, ""),
            X("option", <<<<"value", "2">>>>, "again", <<>>, "")>>, ""),
        X("textarea", <<<<"name", "txt">>, <<"minlength", "3">>, <<"pattern", "x">>,
                        <<"class", "form-control big">>>>, "", <<>>, ""),
        X("button", <<<<"type", "submit">>, <<"name", "b1">>, <<"class", "btn">>>>,
          "Go", <<>>, ""),
        X("input", <<<<"type", "reset">>>>, "", <<>>, ""),
        X("button", <<>>, "Plain", <<>>, ""),
        X("input", <<<<"type", "hidden">>, <<"name", "txt">>, <<"value", "h">>>>,
          "", <<>>, ""),
        X("span", <<<<"type", "submit">>>>, "s", <<>>, ""),
        X("p", <<>>, "", <<PI("widget noclean", "")>>, "")>>, ""),
      Q("specific-feedback", <<>>, "", <<
        Q("element", <<>>, "Text", <<X("span", <<>>, "inside", <<>>, "")>>, ""),
        N("element", <<<<"qpy:attribute", "value">>>>, "Content", <<>>, ""),
        Comment(" Comment ", ""),
        X("regular", <<>>, "Normal Content", <<>>, "")>>, "")>>, "")

\* a shuffled list in an item of a shuffled list, with markers in the items of
\* both
NestedDoc ==
    Q("question", <<>>, "", <<
      Q("formulation", <<>>, "", <<
        X("ol", <<<<"qpy:shuffle-contents", "">>>>, "", <<
            X("li", <<>>, "", <<
                Q("shuffled-index", <<>>, "", <<>>, " outer"),
                X("ul", <<<<"qpy:shuffle-contents", "">>>>, "", <<
                    X("li", <<>>, "", <<
                        Q("shuffled-index", <<<<"format", "abc">>>>, "", <<>>, " x")>>, ""),
                    X("li", <<>>, "", <<
                        Q("shuffled-index", <<<<"format", "abc">>>>, "", <<>>, " y")>>, ""),
                    X("li", <<>>, "", <<
                        Q("shuffled-index", <<<<"format", "abc">>>>, "", <<>>, " z")>>, "")>>,
                  "")>>, ""),
            X("li", <<>>, "", <<
                X("input", <<<<"type", "radio">>, <<"name", "choice">>, <<"value", "B">>>>,
                  "", <<>>, ""),
                Q("shuffled-index", <<>>, "", <<>>, " second")>>, ""),
            X("li", <<>>, "", <<Q("shuffled-index", <<>>, "", <<>>, " third")>>, "")>>,
          "")>>, "")>>, "")

\* the controls of the metadata test with their correct responses, and
\* elements without a name, without a value, with the name of another element,
\* and outside the formulation
MetadataDoc ==
    Q("question", <<>>, "", <<
      Q("formulation", <<>>, "", <<
        X("input", <<<<"type", "number">>, <<"name", "my_number">>,
                     <<"qpy:correct-response", "42">>, <<"required", "required">>>>,
          "", <<>>, ""),
        X("select", <<<<"name", "my_select">>, <<"qpy:correct-response", "1">>>>, "", <<
            X("option", <<<<"value", "1">>>>, "One", <<>>, ""),
            X("option", <<<<"value", "2">>>>, "Two", <<>>, "")>>, ""),
        X("input", <<<<"type", "radio">>, <<"name", "my_radio">>, <<"value", "1">>>>,
          "", <<>>, ""),
        X("input", <<<<"type", "radio">>, <<"name", "my_radio">>, <<"value", "2">>,
                     <<"qpy:correct-response", "">>>>, "", <<>>, ""),
        X("textarea", <<<<"name", "my_text">>,
                        <<"qpy:correct-response", "Lorem ipsum dolor sit amet.">>>>,
          "", <<>>, ""),
        X("button", <<<<"name", "my_button">>>>, "Go", <<>>, ""),
        X("input", <<<<"name", "only_lowercase_letters">>, <<"pattern", "^[a-z]+$">>>>,
          "", <<>>, ""),
        X("input", <<<<"name", "between_5_and_10_chars">>, <<"minlength", "5">>,
                     <<"maxlength", "10">>>>, "", <<>>, ""),
        X("input", <<<<"type", "text">>, <<"qpy:correct-response", "x">>>>, "", <<>>, ""),
        X("input", <<<<"type", "text">>, <<"name", "">>,
                     <<"qpy:correct-response", "y">>>>, "", <<>>, ""),
        X("input", <<<<"type", "text">>, <<"name", "empty">>,
                     <<"qpy:correct-response", "">>, <<"required", "">>>>, "", <<>>, ""),
        X("input", <<<<"type", "radio">>, <<"name", "novalue">>,
                     <<"qpy:correct-response", "z">>>>, "", <<>>, ""),
        X("p", <<>>, "", <<
            X("input", <<<<"type", "checkbox">>, <<"name", "boxes">>, <<"value", "a">>,
                         <<"qpy:correct-response", "a">>>>, "", <<>>, ""),
            X("input", <<<<"type", "checkbox">>, <<"name", "boxes">>, <<"value", "b">>,
                         <<"qpy:correct-response", "b">>>>, "", <<>>, "")>>, ""),
        X("span", <<<<"name", "note">>, <<"qpy:correct-response", "n">>>>, "", <<>>, "")>>,
        ""),
      Q("general-feedback", <<>>, "", <<
        X("input", <<<<"name", "outside">>, <<"qpy:correct-response", "no">>,
                     <<"required", "required">>>>, "", <<>>, "")>>, "")>>, "")

\* etree.fromstring(xml.encode()): the parsed document, a fresh tree per call
ParseDoc(x) ==
    Relabel(CASE x = "feedbacks.xhtml" -> FeedbacksDoc
              [] x = "if-role.xhtml" -> IfRoleDoc
              [] x = "placeholder.xhtml" -> PlaceholderDoc
              [] x = "bad-mode.xhtml" -> BadModeDoc
              [] x = "no-formulation.xhtml" -> NoFormulationDoc
              [] x = "shuffle.xhtml" -> ShuffleDoc
              [] x = "controls.xhtml" -> ControlsDoc
              [] x = "metadata.xhtml" -> MetadataDoc
              [] x = "nested.xhtml" -> NestedDoc, 1)

\* ------------------------------------------------- process-wide random generator
\* The generator of Python's random module is modelled as a deterministic
\* generator with RngMod states: seeding fixes the state, every draw advances it.
Truthy(s) == s # None /\ s # Some(0)

\* random.seed(s)
SeedRng(s) == s % RngMod

\* one draw of an integer below n
RandBelow(n, r) == [val |-> r % n, rng |-> (r + 1) % RngMod]

RECURSIVE ShuffleFrom(_, _, _)
\* random.shuffle(x): for i from the last position down, swap x[i] with x[j],
\* j drawn from the positions up to i
ShuffleFrom(x, i, r) ==
    IF i < 2 THEN [list |-> x, rng |-> r]
    ELSE LET d == RandBelow(i, r)
             j == d.val + 1
         IN  ShuffleFrom([x EXCEPT ![i] = x[j], ![j] = x[i]], i - 1, d.rng)

Shuffle(x, r) == ShuffleFrom(x, Len(x), r)

\* ------------------------------------------------------------------ xpath
\* for element in query: ...   (the query result is a list taken before the loop)
RECURSIVE ForEach(_, _, _, _)
ForEach(Step(_, _), t, list, i) ==
    IF i > Len(list) THEN t
    ELSE LET next == Step(t, list[i])
         IN  \* the body runs on the result of the iteration before it: the
             \* comparison has TLC evaluate that result here, not inside the
             \* iterations that follow
             IF next = next THEN ForEach(Step, next, list, i + 1) ELSE t

\* the nodes of the document of root t that satisfy P, in document order
XPath(t, P(_)) == SelectSeq(Flatten(t), P)

\* parent.remove(node) where the node has a parent
Remove(t, n) == Subst(t, n.id, <<>>)

\* ------------------------------------------------------- resolve_placeholders
IsPlaceholderPI(n) == n.kind = "pi" /\ n.tag = "p"

PIKey(p) == Split(p.text)[1]
PIMode(p) == IF Len(Split(p.text)) > 1 THEN Split(p.text)[2] ELSE "clean"

\* the content of the cleaned value without the element clean_html wraps it in
CleanedContent(raw) ==
    LET cleaned_value == FromString(CleanHtml(raw))[1]
    IN  cleaned_value.text \o KidsToString(cleaned_value.kids, 1)

\* the raw value in every mode
RawReplacement(p, ph) == ph[PIKey(p)]

PlaceholderReplacement(p, ph) ==
    IF Lower(PIMode(p)) = "clean" THEN CleanedContent(ph[PIKey(p)]) ELSE ph[PIKey(p)]

\* the exception the loop body raises for one instruction, "" when it raises none
PlaceholderError(p, ph) ==
    IF p.text = "" \/ PIKey(p) \notin DOMAIN ph THEN ""
    ELSE IF Lower(PIMode(p)) \notin {"clean", "noclean"}
         THEN (IF Lower(PIMode(p)) = "plain" THEN "" ELSE "AssertionError")
         ELSE IF FromString("<string>" \o PlaceholderReplacement(p, ph) \o "</string>") = None
              THEN "XMLSyntaxError" ELSE ""

ResolveOne(t, p, ph) ==
    IF p.text = "" THEN t
    ELSE IF PIKey(p) \notin DOMAIN ph THEN Remove(t, p)
    ELSE IF Lower(PIMode(p)) \notin {"clean", "noclean"}
         THEN \* plain: <string> with the raw value as CDATA text replaces the
              \* instruction; replace() leaves the tail with the old node
              Subst(t, p.id,
                    <<[N("string", <<>>, ph[PIKey(p)], <<>>, "")
                         EXCEPT !.cdata = TRUE, !.id = p.id * IdStride]>>)
         ELSE \* addnext(parsed), then remove(instruction) with its tail
              Subst(t, p.id,
                    <<Relabel(FromString("<string>" \o PlaceholderReplacement(p, ph)
                                         \o "</string>")[1], p.id * IdStride)>>)

\* the exception resolve_placeholders raises on the tree, "" when it returns
ResolveRaises(t, ph) ==
    LET l == XPath(t, IsPlaceholderPI)
        bad == {i \in 1..Len(l) : PlaceholderError(l[i], ph) # ""}
    IN  IF bad = {} THEN ""
        ELSE PlaceholderError(l[CHOOSE i \in bad : \A k \in bad : i <= k], ph)

resolve_placeholders(t, ph) ==
    ForEach(LAMBDA tr, p : ResolveOne(tr, p, ph), t, XPath(t, IsPlaceholderPI), 1)

\* ----------------------------------------------------- hide_unwanted_feedback
HasFeedback(n) == IsElement(n) /\ HasAttr(n.attrs, "qpy:feedback")

\* every marked element removed, whatever the options enable
HideAllFeedback(t, opts) ==
    IF opts = None THEN t
    ELSE ForEach(LAMBDA tr, e : Remove(tr, e), t, XPath(t, HasFeedback), 1)

hide_unwanted_feedback(t, opts) ==
    IF opts = None THEN t
    ELSE ForEach(LAMBDA tr, e :
                    LET feedback_type == AttrGet(e.attrs, "qpy:feedback")
                    IN  IF \/ feedback_type = Some("general") /\ ~opts[1].general_feedback
                           \/ feedback_type = Some("specific") /\ ~opts[1].feedback
                        THEN Remove(tr, e) ELSE tr,
                 t, XPath(t, HasFeedback), 1)

\* --------------------------------------------------------------- hide_if_role
HasIfRole(n) == IsElement(n) /\ HasAttr(n.attrs, "qpy:if-role")

\* the filter without the exemption of the admin role
HideIfRoleOfAdminToo(t, opts) ==
    IF opts = None THEN t
    ELSE ForEach(LAMBDA tr, e :
                    LET allowed_roles == Split(AttrGet(e.attrs, "qpy:if-role")[1])
                    IN  IF ~\E i \in 1..Len(allowed_roles) :
                               Some(allowed_roles[i]) = DictGet(opts[1].context, "role")
                        THEN Remove(tr, e) ELSE tr,
                 t, XPath(t, HasIfRole), 1)

\* the filter that returns early where the context has no role
HideIfRoleNeedsRole(t, opts) ==
    IF \/ opts = None
       \/ DictGet(opts[1].context, "role") = None
       \/ DictGet(opts[1].context, "role") = Some("admin") THEN t
    ELSE ForEach(LAMBDA tr, e :
                    LET allowed_roles == Split(AttrGet(e.attrs, "qpy:if-role")[1])
                    IN  IF ~\E i \in 1..Len(allowed_roles) :
                               Some(allowed_roles[i]) = DictGet(opts[1].context, "role")
                        THEN Remove(tr, e) ELSE tr,
                 t, XPath(t, HasIfRole), 1)

hide_if_role(t, opts) ==
    IF opts = None \/ DictGet(opts[1].context, "role") = Some("admin") THEN t
    ELSE ForEach(LAMBDA tr, e :
                    LET allowed_roles == Split(AttrGet(e.attrs, "qpy:if-role")[1])
                    IN  IF ~\E i \in 1..Len(allowed_roles) :
                               Some(allowed_roles[i]) = DictGet(opts[1].context, "role")
                        THEN Remove(tr, e) ELSE tr,
                 t, XPath(t, HasIfRole), 1)

\* ---------------------------------------------- set_input_values_and_readonly
IsInputLike(n) ==
    IsX(n, "button") \/ IsX(n, "input") \/ IsX(n, "select") \/ IsX(n, "textarea")

\* not attempt: None or an empty dict
NoAttempt(att) == att = None \/ DOMAIN att[1] = {}

\* the parent of the node `id` of the tree
ParentOf(t, id) ==
    LET f == Flatten(t)
    IN  f[CHOOSE i \in 1..Len(f) : \E k \in 1..Len(f[i].kids) : f[i].kids[k].id = id]

\* .//xhtml:option[parent::xhtml:select[@name='name']] on the document evaluator
OptionsOfSelectsNamed(t, name) ==
    XPath(t, LAMBDA n : /\ IsX(n, "option")
                        /\ n.id # t.id
                        /\ IsX(ParentOf(t, n.id), "select")
                        /\ AttrGet(ParentOf(t, n.id).attrs, "name") = Some(name))

OptValue(o) ==
    IF HasAttr(o.attrs, "value") THEN AttrGet(o.attrs, "value")
    ELSE IF o.text = "" THEN None ELSE Some(o.text)

\* the first option of the list whose value is last_value gets selected
SelectOption(t, opts, last_value) ==
    LET hit == {i \in 1..Len(opts) : OptValue(opts[i]) = last_value}
    IN  IF hit = {} THEN t
        ELSE LET o == opts[CHOOSE i \in hit : \A k \in hit : i <= k]
             IN  SetAttrs(t, o.id, AttrSet(o.attrs, "selected", "selected"))

HydrateOne(t, e, att, opts) ==
    LET cur == Find(t, e.id)
        a1 == IF opts # None /\ opts[1].readonly
              THEN AttrSet(cur.attrs, "disabled", "disabled") ELSE cur.attrs
        t1 == SetAttrs(t, e.id, a1)
        name == AttrGet(a1, "name")
        type_attr == IF cur.tag = "input" THEN AttrGetD(a1, "type", "text") ELSE cur.tag
    IN  IF name = None \/ name = Some("") THEN t1
        ELSE IF NoAttempt(att) THEN t1
        ELSE LET last_value == DictGet(att[1], name[1])
             IN  IF last_value = None THEN t1
                 ELSE IF type_attr \in {"checkbox", "radio"}
                      THEN (IF AttrGet(a1, "value") = last_value
                            THEN SetAttrs(t1, e.id, AttrSet(a1, "checked", "checked"))
                            ELSE t1)
                 ELSE IF type_attr = "select"
                      THEN SelectOption(t1, OptionsOfSelectsNamed(t1, name[1]), last_value)
                 ELSE IF type_attr \notin {"button", "submit", "hidden"}
                      THEN SetAttrs(t1, e.id, AttrSet(a1, "value", last_value[1]))
                 ELSE t1

set_input_values_and_readonly(t, att, opts) ==
    ForEach(LAMBDA tr, e : HydrateOne(tr, e, att, opts), t, XPath(t, IsInputLike), 1)

\* ----------------------------------------------------------- soften_validation
\* the loop that writes the targets of an empty source value too
SoftenValueOfEmptyToo(t, tags, src, targets) ==
    ForEach(LAMBDA tr, e :
               LET cur == Find(tr, e.id)
                   v == AttrGet(cur.attrs, src)[1]
               IN  SetAttrs(tr, e.id,
                            ForEach(LAMBDA a, k : AttrSet(a, k, v),
                                    AttrPop(cur.attrs, src), targets, 1)),
            t,
            XPath(t, LAMBDA n : IsElement(n) /\ n.ns = "xhtml" /\ n.tag \in tags
                                /\ HasAttr(n.attrs, src)),
            1)

\* one loop of soften_validation: the attribute src is popped from every
\* element of one of the tags and, when its value is not empty, the targets get it
SoftenValue(t, tags, src, targets) ==
    ForEach(LAMBDA tr, e :
               LET cur == Find(tr, e.id)
                   v == AttrGet(cur.attrs, src)[1]
                   popped == AttrPop(cur.attrs, src)
               IN  SetAttrs(tr, e.id,
                            IF v = "" THEN popped
                            ELSE ForEach(LAMBDA a, k : AttrSet(a, k, v), popped, targets, 1)),
            t,
            XPath(t, LAMBDA n : IsElement(n) /\ n.ns = "xhtml" /\ n.tag \in tags
                                /\ HasAttr(n.attrs, src)),
            1)

\* the loop of the required attribute: the targets get the literal "true"
SoftenRequired(t) ==
    ForEach(LAMBDA tr, e :
               LET cur == Find(tr, e.id)
               IN  SetAttrs(tr, e.id,
                            AttrSet(AttrSet(AttrPop(cur.attrs, "required"),
                                            "data-qpy_required", "true"),
                                    "aria-required", "true")),
            t,
            XPath(t, LAMBDA n : IsElement(n) /\ n.ns = "xhtml"
                                /\ n.tag \in {"input", "select", "textarea"}
                                /\ HasAttr(n.attrs, "required")),
            1)

soften_validation(t) ==
    LET t1 == SoftenValue(t, {"input"}, "pattern", <<"data-qpy_pattern">>)
        t2 == SoftenRequired(t1)
        t3 == SoftenValue(t2, {"input", "textarea"}, "minlength", <<"data-qpy_minlength">>)
        t4 == SoftenValue(t3, {"input", "textarea"}, "maxlength", <<"data-qpy_maxlength">>)
        t5 == SoftenValue(t4, {"input"}, "min", <<"data-qpy_min", "aria-valuemin">>)
    IN  SoftenValue(t5, {"input"}, "max", <<"data-qpy_max", "aria-valuemax">>)

\* -------------------------------------------------------------- defuse_buttons
defuse_buttons(t) ==
    ForEach(LAMBDA tr, e : SetAttrs(tr, e.id, AttrSet(Find(tr, e.id).attrs, "type", "button")),
            t,
            XPath(t, LAMBDA n : /\ IsX(n, "input") \/ IsX(n, "button")
                                /\ AttrGet(n.attrs, "type") \in {Some("submit"), Some("reset")}),
            1)

\* ------------------------------------------------------------- shuffled indices
RECURSIVE Concat(_, _)
\* "".join(strings[i:])
Concat(strings, i) ==
    IF i > Len(strings) THEN "" ELSE strings[i] \o Concat(strings, i + 1)

Alphabet ==
    <<"a", "b", "c", "d", "e", "f", "g", "h", "i", "j", "k", "l", "m",
      "n", "o", "p", "q", "r", "s", "t", "u", "v", "w", "x", "y", "z">>

\* str.upper() / str.lower() of one letter
UpperChar(c) ==
    CASE c = "a" -> "A" [] c = "b" -> "B" [] c = "c" -> "C" [] c = "d" -> "D"
      [] c = "e" -> "E" [] c = "f" -> "F" [] c = "g" -> "G" [] c = "h" -> "H"
      [] c = "i" -> "I" [] c = "j" -> "J" [] c = "k" -> "K" [] c = "l" -> "L"
      [] c = "m" -> "M" [] c = "n" -> "N" [] c = "o" -> "O" [] c = "p" -> "P"
      [] c = "q" -> "Q" [] c = "r" -> "R" [] c = "s" -> "S" [] c = "t" -> "T"
      [] c = "u" -> "U" [] c = "v" -> "V" [] c = "w" -> "W" [] c = "x" -> "X"
      [] c = "y" -> "Y" [] c = "z" -> "Z" [] OTHER -> c
LowerChar(c) ==
    CASE c = "M" -> "m" [] c = "D" -> "d" [] c = "C" -> "c" [] c = "L" -> "l"
      [] c = "X" -> "x" [] c = "V" -> "v" [] c = "I" -> "i" [] OTHER -> c

\* chr(ord('a') + index - 1) as a list of characters; the characters that
\* follow 'z' in the character table are '{', '|', '}', '~'
int_to_letter(index) ==
    IF index \in 1..26 THEN <<Alphabet[index]>>
    ELSE <<CASE index = 27 -> "{" [] index = 28 -> "|" [] index = 29 -> "}"
             [] OTHER -> "~">>

RomanVal == <<1000, 900, 500, 400, 100, 90, 50, 40, 10, 9, 5, 4, 1>>
\* a table of symbols that writes four and nine with ones
RomanSybAdditive ==
    <<<<"M">>, <<"C", "M">>, <<"D">>, <<"C", "D">>, <<"C">>, <<"X", "C">>, <<"L">>,
      <<"X", "L">>, <<"X">>, <<"V", "I", "I", "I", "I">>, <<"V">>, <<"I", "I", "I", "I">>,
      <<"I">>>>

RomanSyb ==
    <<<<"M">>, <<"C", "M">>, <<"D">>, <<"C", "D">>, <<"C">>, <<"X", "C">>, <<"L">>,
      <<"X", "L">>, <<"X">>, <<"I", "X">>, <<"V">>, <<"I", "V">>, <<"I">>>>

RECURSIVE Repeat(_, _)
Repeat(s, k) == IF k <= 0 THEN <<>> ELSE s \o Repeat(s, k - 1)

RECURSIVE RomanLoop(_, _, _)
\* while index > 0: for _ in range(index // val[i]): ...; i += 1
RomanLoop(index, i, roman_num) ==
    IF index <= 0 THEN roman_num
    ELSE LET c == index \div RomanVal[i]
         IN  RomanLoop(index - c * RomanVal[i], i + 1, roman_num \o Repeat(RomanSyb[i], c))

RECURSIVE RomanReads(_, _)
\* the index of the last entry of val the loop reads, counted from 1; the
\* entries are RomanVal[1] to RomanVal[Len(RomanVal)]
RomanReads(index, i) ==
    IF index <= 0 THEN i - 1
    ELSE IF i > Len(RomanVal) THEN i
    ELSE RomanReads(index - (index \div RomanVal[i]) * RomanVal[i], i + 1)

\* the numeral as a list of characters
int_to_roman(index) == RomanLoop(index, 1, <<>>)

MapChars(F(_), cs) == [i \in 1..Len(cs) |-> F(cs[i])]

\* a numbering that knows the Arabic and the two letter styles only
IndexStrWithoutRoman(format_style, index) ==
    CASE format_style = "abc" -> Concat(MapChars(LowerChar, int_to_letter(index)), 1)
      [] format_style = "ABC" -> Concat(MapChars(UpperChar, int_to_letter(index)), 1)
      [] OTHER -> ToString(index)

\* the text that stands for index in the style of the marker's format attribute
IndexStr(format_style, index) ==
    CASE format_style = "123" -> ToString(index)
      [] format_style = "abc" -> Concat(MapChars(LowerChar, int_to_letter(index)), 1)
      [] format_style = "ABC" -> Concat(MapChars(UpperChar, int_to_letter(index)), 1)
      [] format_style = "iii" -> Concat(MapChars(LowerChar, int_to_roman(index)), 1)
      [] format_style = "III" -> Concat(MapChars(UpperChar, int_to_roman(index)), 1)
      [] OTHER -> ToString(index)

\* replace_shuffled_indices(element, index) for the child `cid` of the tree: every
\* qpy:shuffled-index descendant of the child is replaced by a <span> of no
\* namespace that holds the index and keeps the tail of the marker
replace_shuffled_indices(t, cid, index) ==
    ForEach(LAMBDA tr, ie :
               Subst(tr, ie.id,
                     <<[N("span", <<>>, IndexStr(AttrGetD(ie.attrs, "format", "123"), index),
                          <<>>, ie.tail) EXCEPT !.id = ie.id * IdStride]>>),
            t,
            SelectSeq(Descendants(Find(t, cid)), LAMBDA n : IsQ(n, "shuffled-index")),
            1)

\* ------------------------------------------------------------ shuffle_contents
HasShuffle(n) == IsElement(n) /\ HasAttr(n.attrs, "qpy:shuffle-contents")

\* an append that puts a copy of the child behind its siblings and leaves the
\* child where it is
AppendCopy(t, eid, cid) ==
    LET e == Find(t, eid)
    IN  Subst(t, eid, <<[e EXCEPT !.kids = Append(e.kids, Find(t, cid))]>>)

\* element.append(child): the child, as it is now, moves behind its siblings
MoveToEnd(t, eid, cid) ==
    LET child == Find(t, cid)
        t1 == Subst(t, cid, <<>>)
        e == Find(t1, eid)
    IN  Subst(t1, eid, <<[e EXCEPT !.kids = Append(e.kids, child)]>>)

\* a loop body that shuffles only the children without a checked control and
\* leaves the others in front
ShuffleUncheckedOnly(s, el) ==
    LET e == Find(s.tree, el.id)
        sh == Shuffle(SelectSeq(e.kids,
                                LAMBDA c : \A i \in 1..Len(Flatten(c)) :
                                              ~HasAttr(Flatten(c)[i].attrs, "checked")),
                      s.rng)
        child_elements == sh.list
        t1 == SetAttrs(s.tree, e.id, AttrPop(e.attrs, "qpy:shuffle-contents"))
        t2 == ForEach(LAMBDA tr, i :
                         MoveToEnd(replace_shuffled_indices(tr, child_elements[i].id, i),
                                   e.id, child_elements[i].id),
                      t1, [i \in 1..Len(child_elements) |-> i], 1)
    IN  [tree |-> t2, rng |-> sh.rng]

\* the body of the loop for one marked element that is in the tree; the state is
\* the tree with the generator
ShuffleOne(s, el) ==
    LET e == Find(s.tree, el.id)
        sh == Shuffle(e.kids, s.rng)
        child_elements == sh.list
        t1 == SetAttrs(s.tree, e.id, AttrPop(e.attrs, "qpy:shuffle-contents"))
        t2 == ForEach(LAMBDA tr, i :
                         MoveToEnd(replace_shuffled_indices(tr, child_elements[i].id, i),
                                   e.id, child_elements[i].id),
                      t1, [i \in 1..Len(child_elements) |-> i], 1)
    IN  [tree |-> t2, rng |-> sh.rng]

\* shuffle_contents without its call of random.seed
KeepGenerator(sd, r) == r

\* the generator after random.seed(self.seed) where the seed is truthy
SeedIfTruthy(sd, r) == IF Truthy(sd) THEN SeedRng(sd[1]) ELSE r

\* the tree and the generator after shuffle_contents
shuffle_contents(t, sd, r) ==
    ForEach(LAMBDA s, el :
               IF InTree(s.tree, el.id) THEN ShuffleOne(s, el)
               ELSE [s EXCEPT !.rng = Shuffle(el.kids, s.rng).rng],
            [tree |-> t, rng |-> SeedIfTruthy(sd, r)], XPath(t, HasShuffle), 1)

\* ------------------------------------------------------------------- add_styles
RECURSIVE Join(_, _)
\* ' '.join(words[i:])
Join(words, i) ==
    IF i > Len(words) THEN ""
    ELSE IF i = Len(words) THEN words[i]
    ELSE words[i] \o " " \o Join(words, i + 1)

add_class_names(t, e, class_names) ==
    LET cur == Find(t, e.id)
        existing_classes ==
            ForEach(LAMBDA l, c : IF InList(c, l) THEN l ELSE Append(l, c),
                    Split(AttrGetD(cur.attrs, "class", "")), class_names, 1)
    IN  SetAttrs(t, e.id, AttrSet(cur.attrs, "class", Join(existing_classes, 1)))

TypeIn(n, types) ==
    HasAttr(n.attrs, "type") /\ AttrGet(n.attrs, "type")[1] \in types

add_styles(t) ==
    LET t1 == ForEach(LAMBDA tr, e : add_class_names(tr, e, <<"form-control", "qpy-input">>),
                      t,
                      XPath(t, LAMBDA n :
                                 \/ /\ IsX(n, "input")
                                    /\ HasAttr(n.attrs, "type")
                                    /\ ~TypeIn(n, {"checkbox", "radio", "button",
                                                   "submit", "reset"})
                                 \/ IsX(n, "select")
                                 \/ IsX(n, "textarea")),
                      1)
        t2 == ForEach(LAMBDA tr, e : add_class_names(tr, e, <<"btn", "btn-primary", "qpy-input">>),
                      t1,
                      XPath(t1, LAMBDA n :
                                  \/ IsX(n, "input") /\ TypeIn(n, {"button", "submit", "reset"})
                                  \/ IsX(n, "button")),
                      1)
    IN  ForEach(LAMBDA tr, e : add_class_names(tr, e, <<"qpy-input">>),
                t2,
                XPath(t2, LAMBDA n : IsX(n, "input") /\ TypeIn(n, {"checkbox", "radio"})),
                1)

\* ---------------------------------------------------------------- format_floats
\* Python strings that the code takes apart are lists of characters here.
\* A float is the decimal number (-1)^neg * m / 10^s; the values of the documents
\* are short decimals, for which Python's conversions agree with decimal
\* arithmetic.  float(text): None where Python raises ValueError.
Float(text) ==
    CASE text = "1234.5" -> Some([neg |-> FALSE, m |-> 12345, s |-> 1])
      [] text = "-0.5" -> Some([neg |-> TRUE, m |-> 5, s |-> 1])
      [] text = "-1234.25" -> Some([neg |-> TRUE, m |-> 123425, s |-> 2])
      [] text = "1.10" -> Some([neg |-> FALSE, m |-> 110, s |-> 2])
      [] text = "42" -> Some([neg |-> FALSE, m |-> 42, s |-> 0])
      [] text = "0.5" -> Some([neg |-> FALSE, m |-> 5, s |-> 1])
      [] text = "-0.04" -> Some([neg |-> TRUE, m |-> 4, s |-> 2])
      [] text = "1234567.125" -> Some([neg |-> FALSE, m |-> 1234567125, s |-> 3])
      [] OTHER -> None

\* int(s) for the precision attribute: None where Python raises ValueError
IntOf(s) ==
    CASE s = "0" -> Some(0) [] s = "1" -> Some(1) [] s = "2" -> Some(2)
      [] s = "3" -> Some(3) [] s = "-1" -> Some(-1) [] OTHER -> None

DigitChars == <<"0", "1", "2", "3", "4", "5", "6", "7", "8", "9">>

RECURSIVE Pow10(_)
Pow10(k) == IF k <= 0 THEN 1 ELSE 10 * Pow10(k - 1)

RECURSIVE DigitsOf(_)
\* the decimal digits of a natural number
DigitsOf(n) ==
    IF n < 10 THEN <<DigitChars[n + 1]>>
    ELSE Append(DigitsOf(n \div 10), DigitChars[(n % 10) + 1])

\* the last k decimal digits of n, zero padded
RECURSIVE LastDigits(_, _)
LastDigits(n, k) ==
    IF k <= 0 THEN <<>> ELSE Append(LastDigits(n \div 10, k - 1), DigitChars[(n % 10) + 1])

Sign(v) == IF v.neg THEN <<"-">> ELSE <<>>

\* m / 10^k rounded to the nearest integer, ties to even
RoundDiv(m, k) ==
    LET d == Pow10(k)
        q == m \div d
        r == m % d
    IN  IF 2 * r > d \/ (2 * r = d /\ q % 2 = 1) THEN q + 1 ELSE q

\* f"{float_val:.{precision}f}"
FormatFixed(v, precision) ==
    LET q == IF precision >= v.s THEN v.m * Pow10(precision - v.s)
             ELSE RoundDiv(v.m, v.s - precision)
    IN  Sign(v) \o DigitsOf(q \div Pow10(precision))
        \o (IF precision > 0 THEN <<".">> \o LastDigits(q, precision) ELSE <<>>)

RECURSIVE RStrip(_, _)
\* str.rstrip(c)
RStrip(cs, c) ==
    IF cs # <<>> /\ cs[Len(cs)] = c THEN RStrip(SubSeq(cs, 1, Len(cs) - 1), c) ELSE cs

\* str(float_val): the shortest decimal that reads back, always with a fraction
StrFloat(v) ==
    LET full == Sign(v) \o DigitsOf(v.m \div Pow10(v.s)) \o <<".">> \o LastDigits(v.m, v.s)
        cut == RStrip(full, "0")
    IN  IF cut[Len(cut)] = "." THEN Append(cut, "0") ELSE cut

\* the position of the first c in cs, 0 when there is none
FirstIndex(cs, c) ==
    IF InList(c, cs) THEN CHOOSE i \in 1..Len(cs) : cs[i] = c /\ \A k \in 1..(i - 1) : cs[k] # c
    ELSE 0

RECURSIVE NatOf(_, _)
\* the number a list of digits stands for
NatOf(cs, acc) ==
    IF cs = <<>> THEN acc
    ELSE NatOf(Tail(cs), 10 * acc + ((CHOOSE d \in 1..10 : DigitChars[d] = cs[1]) - 1))

\* int(chars) of an optional sign and digits, as sign and magnitude
IntOfChars(cs) ==
    IF cs # <<>> /\ cs[1] = "-" THEN -NatOf(Tail(cs), 0) ELSE NatOf(cs, 0)

RECURSIVE Grouped(_)
\* the digits of a natural number in groups of three
Grouped(n) ==
    IF n < 1000 THEN DigitsOf(n)
    ELSE Grouped(n \div 1000) \o <<",">> \o LastDigits(n % 1000, 3)

\* f"{n:,}"
FormatCommas(n) == IF n < 0 THEN <<"-">> \o Grouped(-n) ELSE Grouped(n)

\* the text of the <span> that replaces a qpy:format-float element
FormattedFloat(e) ==
    LET thousands_sep == ","
        decimal_sep == "."
        float_val == Float(e.text)[1]
        precision == IntOf(AttrGetD(e.attrs, "precision", "-1"))[1]
        strip_zeroes == HasAttr(e.attrs, "strip-zeros")
        f1 == IF precision >= 0 THEN FormatFixed(float_val, precision)
              ELSE StrFloat(float_val)
        f2 == IF strip_zeroes /\ InList(".", f1)
              THEN RStrip(RStrip(f1, "0"), decimal_sep) ELSE f1
        dot == FirstIndex(f2, decimal_sep)
        integral_part == IF dot = 0 THEN f2 ELSE SubSeq(f2, 1, dot - 1)
        integral_part_with_sep ==
            MapChars(LAMBDA c : IF c = "," THEN thousands_sep ELSE c,
                     FormatCommas(IntOfChars(integral_part)))
        f3 == IF AttrGetD(e.attrs, "thousands-separator", "no") = "yes"
              THEN (IF dot # 0
                    THEN integral_part_with_sep \o <<decimal_sep>>
                         \o SubSeq(f2, dot + 1, Len(f2))
                    ELSE integral_part_with_sep)
              ELSE f2
    IN  Concat(f3, 1)

IsFormatFloat(n) == IsQ(n, "format-float")

\* the exception format_floats raises on the tree, "" when it returns
FormatFloatsRaises(t) ==
    LET l == XPath(t, IsFormatFloat)
    IN  IF \E i \in 1..Len(l) :
              l[i].text # "" /\ (Float(l[i].text) = None
                                 \/ IntOf(AttrGetD(l[i].attrs, "precision", "-1")) = None)
        THEN "ValueError" ELSE ""

\* every qpy:format-float element with text is replaced by a <span> of no
\* namespace that keeps its tail
format_floats(t) ==
    ForEach(LAMBDA tr, e :
               IF e.text = "" \/ ~InTree(tr, e.id) THEN tr
               ELSE Subst(tr, e.id,
                          <<[N("span", <<>>, FormattedFloat(e), <<>>, e.tail)
                               EXCEPT !.id = e.id * IdStride]>>),
            t, XPath(t, IsFormatFloat), 1)

\* --------------------------------------------------------------------- clean_up
RECURSIVE MapElements(_, _)
\* the tree with F applied to each of its elements
MapElements(F(_), n) ==
    IF IsElement(n)
    THEN F([n EXCEPT !.kids = [i \in 1..Len(n.kids) |-> MapElements(F, n.kids[i])]])
    ELSE n

IsQpyAttr(p) == p[1] \in {"qpy:feedback", "qpy:if-role", "qpy:shuffle-contents",
                          "qpy:correct-response", "qpy:attribute"}

\* a cleanup without the loop over the comments
CleanUpKeepsComments(t) ==
    LET t1 == ForEach(Remove, t, XPath(t, LAMBDA n : IsElement(n) /\ n.ns = "qpy"), 1)
        t2 == MapElements(LAMBDA n : [n EXCEPT !.attrs = SelectSeq(n.attrs,
                                          LAMBDA p : ~IsQpyAttr(p))], t1)
    IN  MapElements(LAMBDA n : [n EXCEPT !.ns = ""], t2)

clean_up(t) ==
    LET \* for element in xpath("//qpy:*"): parent.remove(element)
        t1 == ForEach(Remove, t, XPath(t, LAMBDA n : IsElement(n) /\ n.ns = "qpy"), 1)
        \* the attributes of the QuestionPy namespace are deleted
        t2 == MapElements(LAMBDA n : [n EXCEPT !.attrs = SelectSeq(n.attrs,
                                          LAMBDA p : ~IsQpyAttr(p))], t1)
        \* for comment in xpath("//comment()"): parent.remove(comment)
        t3 == ForEach(Remove, t2, XPath(t2, LAMBDA n : n.kind = "comment"), 1)
        \* element.tag = etree.QName(element).localname
    IN  MapElements(LAMBDA n : [n EXCEPT !.ns = ""], t3)

\* ------------------------------------------------------------------- rendering
\* etree.tostring(newdoc): the root <div> carries the declaration of its nsmap
DocToString(d) ==
    LET open == "<" \o QName(d) \o " xmlns=\"" \o XHTML_NAMESPACE \o "\""
                \o AttrsToString(d.attrs, 1)
    IN  IF d.text = "" /\ d.kids = <<>> THEN open \o "/>"
        ELSE open \o ">" \o TextToString(d) \o KidsToString(d.kids, 1)
             \o "</" \o QName(d) \o ">"

\* the matching elements from the last to the first
FindAllReversed(q, tag) ==
    LET l == SelectSeq(Descendants(q), LAMBDA n : IsQ(n, tag))
    IN  [i \in 1..Len(l) |-> l[Len(l) + 1 - i]]

\* the elements self.question.findall / xpath(".//qpy:<tag>") returns
FindAll(q, tag) == SelectSeq(Descendants(q), LAMBDA n : IsQ(n, tag))

\* render_part, lines 215-219: the new <div> after `for child in part:
\* div.append(child)`; iterating an element yields its child nodes, not its text
NewDiv(part_element) == X("div", <<>>, "", part_element.kids, "")

\* the source document after the children of the part moved to the new <div>
QuestionAfterMove(q, part_element) ==
    Subst(q, part_element.id, <<[part_element EXCEPT !.kids = <<>>]>>)

EmptyDiv == X("div", <<>>, "", <<>>, "")

\* what a render call gives its caller
Returned(s) == [kind |-> "str", value |-> s]
ReturnedNone == [kind |-> "None", value |-> ""]
Raised(exc) == [kind |-> "raise", value |-> exc]
NoResult == [kind |-> "", value |-> ""]

Parts == {"formulation", "general-feedback", "specific-feedback", "right-answer"}

\* the transformations of render_part in the order of their calls
PassOrder ==
    <<"resolve_placeholders", "hide_unwanted_feedback", "hide_if_role",
      "set_input_values_and_readonly", "soften_validation", "defuse_buttons",
      "shuffle_contents", "add_styles", "format_floats", "clean_up", "tostring">>

\* render_part without its call of add_styles
NextPassWithoutStyles(p) ==
    IF p = "shuffle_contents" THEN "format_floats"
    ELSE PassOrder[(CHOOSE i \in 1..Len(PassOrder) : PassOrder[i] = p) + 1]

\* the statement of render_part that follows the pass p
NextPass(p) == PassOrder[(CHOOSE i \in 1..Len(PassOrder) : PassOrder[i] = p) + 1]

\* ------------------------------------------------------------------ inputs
Seeds == {None, Some(0), Some(1), Some(2)}

PlaceholderMap ==
    [param |-> RawParam, description |-> RawDescription, widget |-> RawWidget]

EmptyDict == <<>>

Options(gf, f, ro, ctx) ==
    Some([general_feedback |-> gf, feedback |-> f, right_answer |-> TRUE,
          readonly |-> ro, context |-> ctx])

Role(r) == [role |-> r]

OptionChoices ==
    {None,
     Options(TRUE, TRUE, FALSE, EmptyDict),
     Options(FALSE, FALSE, TRUE, Role("teacher")),
     Options(FALSE, TRUE, FALSE, Role("admin")),
     Options(TRUE, FALSE, TRUE, Role("proctor")),
     Options(FALSE, FALSE, FALSE, Role("guest"))}

AttemptChoices ==
    {None, Some([choice |-> "B", sel |-> "2", sel2 |-> "2", txt |-> "hello"])}

DocNames == {"feedbacks.xhtml", "if-role.xhtml", "placeholder.xhtml", "bad-mode.xhtml",
             "no-formulation.xhtml", "shuffle.xhtml", "controls.xhtml"}

MetadataDocs == {"metadata.xhtml"}

ShuffleDocs == {"shuffle.xhtml", "nested.xhtml"}

\* ------------------------------------------------------------------ get_metadata
\* QuestionMetadata(): the dicts are lists of pairs in the order of insertion
QuestionMetadata == [correct_response |-> <<>>, expected_data |-> <<>>,
                     required_fields |-> <<>>]

\* get_metadata was not called yet
NoMetadata == None

\* the elements below the root, wherever they are
AllDescendants(q) == SelectSeq(Descendants(q), IsElement)

\* the descendants of the qpy:formulation elements below the root, in document
\* order
FormulationDescendants(q) ==
    LET fs == FindAll(q, "formulation")
    IN  ForEach(LAMBDA l, f : l \o SelectSeq(Descendants(f), IsElement), <<>>, fs, 1)

\* str.endswith; element.tag is "{namespace}name" or "name", and it ends with a
\* suffix without a brace exactly when the name does
EndsWith(s, suffix) ==
    Len(s) >= Len(suffix) /\ SubSeq(s, Len(s) - Len(suffix) + 1, Len(s)) = suffix

\* a reading of the qpy:correct-response attribute for every element, a radio
\* input too
CorrectResponseAttribute(element) == AttrGet(element.attrs, "qpy:correct-response")

\* the value the first loop of get_metadata reads for the element: None when the
\* attribute it reads is missing
CorrectValue(element) ==
    IF EndsWith(element.tag, "input") /\ AttrGet(element.attrs, "type") = Some("radio")
    THEN AttrGet(element.attrs, "value")
    ELSE AttrGet(element.attrs, "qpy:correct-response")

\* `not x` for an optional string: None or the empty string
Falsy(x) == x = None \/ x = Some("")

\* the first loop of get_metadata
CorrectResponses(q) ==
    ForEach(LAMBDA d, element :
               IF Falsy(AttrGet(element.attrs, "name")) \/ Falsy(CorrectValue(element))
               THEN d
               ELSE AttrSet(d, AttrGet(element.attrs, "name")[1], CorrectValue(element)[1]),
            <<>>,
            SelectSeq(FormulationDescendants(q),
                      LAMBDA n : HasAttr(n.attrs, "qpy:correct-response")),
            1)

\* the second loop of get_metadata for one element type, on the metadata so far
ExpectedOfType(q, md, element_type) ==
    ForEach(LAMBDA m, element :
               IF Falsy(AttrGet(element.attrs, "name")) THEN m
               ELSE [m EXCEPT
                       !.expected_data = AttrSet(@, AttrGet(element.attrs, "name")[1], "Any"),
                       !.required_fields =
                           IF HasAttr(element.attrs, "required")
                           THEN Append(@, AttrGet(element.attrs, "name")[1]) ELSE @],
            md,
            SelectSeq(FormulationDescendants(q), LAMBDA n : IsX(n, element_type)),
            1)

get_metadata(q) ==
    ForEach(LAMBDA m, element_type : ExpectedOfType(q, m, element_type),
            [QuestionMetadata EXCEPT !.correct_response = CorrectResponses(q)],
            <<"input", "select", "textarea", "button">>, 1)

\* no function call and no threads: the state of the render specifications
NoCalc == [fn |-> "", arg |-> 0, out |-> None]
NoThreads == <<>>

\* ------------------------------------------------------------------ state
TypeOK ==
    /\ xml \in DocNames \cup MetadataDocs \cup ShuffleDocs
    /\ seed \in Seeds
    /\ rng \in 0..(RngMod - 1)
    /\ pc \in {"idle"} \cup {PassOrder[i] : i \in 1..Len(PassOrder)}
    /\ part \in Parts \cup {""}
    /\ calls \in 0..MaxCalls
    /\ fresh \in {"new", "first", "used"}

InitRenderer ==
    /\ placeholders = PlaceholderMap
    /\ seed \in Seeds
    /\ question = ParseDoc(xml)
    /\ rng \in 0..(RngMod - 1)
    /\ pc = "idle"
    /\ part = ""
    /\ work = EmptyDiv
    /\ stages = <<>>
    /\ log = <<>>
    /\ result = NoResult
    /\ fresh = "new"
    /\ bySeed = [s \in Seeds |-> <<>>]
    /\ byPart = [p \in Parts |-> <<>>]
    /\ metadata = NoMetadata
    /\ calc = NoCalc
    /\ threads = NoThreads

\* one render call on a freshly constructed renderer
Init ==
    /\ xml \in DocNames
    /\ attempt \in AttemptChoices
    /\ options \in OptionChoices
    /\ calls = 1
    /\ InitRenderer

\* the call ends with the outcome res; the histories list the outcomes of the
\* formulation renders on a new renderer by its seed, and the outcomes of the
\* renders on this renderer by their part
Finish(res, p, fr) ==
    /\ result' = res
    /\ pc' = "idle"
    /\ bySeed' = IF p = "formulation" /\ fr = "first"
                 THEN [bySeed EXCEPT ![seed] = Append(@, res)] ELSE bySeed
    /\ byPart' = [byPart EXCEPT ![p] = Append(@, res)]

Called(p) ==
    /\ pc = "idle"
    /\ calls > 0
    /\ calls' = calls - 1
    /\ part' = p
    /\ fresh' = IF fresh = "new" THEN "first" ELSE "used"
    /\ log' = <<>>
    /\ UNCHANGED <<xml, placeholders, seed, rng, attempt, options, metadata, calc,
                   threads>>

\* the call ends before render_part
EndEarly(res, p) ==
    /\ Finish(res, p, fresh')
    /\ work' = EmptyDiv
    /\ stages' = <<>>
    /\ UNCHANGED question

\* render_part up to the first transformation
StartPart(part_element) ==
    /\ work' = NewDiv(part_element)
    /\ stages' = <<NewDiv(part_element)>>
    /\ question' = QuestionAfterMove(question, part_element)
    /\ pc' = PassOrder[1]
    /\ UNCHANGED <<result, bySeed, byPart>>

render_formulation ==
    /\ Called("formulation")
    /\ LET formulations == FindAll(question, "formulation")
       IN  IF formulations = <<>>
           THEN EndEarly(Raised("FormulationElementMissingError"), "formulation")
           ELSE StartPart(formulations[1])

\* a render of an optional part that demands a formulation as render_formulation
\* does
RenderOptionalNeedsFormulation(p) ==
    /\ Called(p)
    /\ LET elements == FindAll(question, p)
       IN  IF FindAll(question, "formulation") = <<>>
           THEN EndEarly(Raised("FormulationElementMissingError"), p)
           ELSE IF elements = <<>> THEN EndEarly(ReturnedNone, p)
           ELSE StartPart(elements[1])

\* the three renders of an optional part
RenderOptional(p) ==
    /\ Called(p)
    /\ LET elements == FindAll(question, p)
       IN  IF elements = <<>> THEN EndEarly(ReturnedNone, p)
           ELSE StartPart(elements[1])

render_general_feedback == RenderOptional("general-feedback")
render_specific_feedback == RenderOptional("specific-feedback")
render_right_answer == RenderOptional("right-answer")

\* one transformation of render_part: it raises exc (when exc is not ""), or it
\* leaves the tree t and the generator r
Pass(name, exc, t, r) ==
    /\ pc = name
    /\ log' = Append(log, name)
    /\ IF exc # ""
       THEN /\ Finish(Raised(exc), part, fresh)
            /\ UNCHANGED <<work, stages, rng>>
       ELSE /\ work' = t
            /\ stages' = Append(stages, t)
            /\ rng' = r
            /\ pc' = NextPass(name)
            /\ UNCHANGED <<result, bySeed, byPart>>
    /\ UNCHANGED <<xml, placeholders, seed, question, attempt, options, part, calls, fresh,
                   metadata, calc, threads>>

ResolvePlaceholders ==
    Pass("resolve_placeholders", ResolveRaises(work, placeholders),
         resolve_placeholders(work, placeholders), rng)

HideUnwantedFeedback ==
    Pass("hide_unwanted_feedback", "", hide_unwanted_feedback(work, options), rng)

HideIfRole == Pass("hide_if_role", "", hide_if_role(work, options), rng)

SetInputValuesAndReadonly ==
    Pass("set_input_values_and_readonly", "",
         set_input_values_and_readonly(work, attempt, options), rng)

SoftenValidation == Pass("soften_validation", "", soften_validation(work), rng)

DefuseButtons == Pass("defuse_buttons", "", defuse_buttons(work), rng)

ShuffleContents ==
    Pass("shuffle_contents", "", shuffle_contents(work, seed, rng).tree,
         shuffle_contents(work, seed, rng).rng)

AddStyles == Pass("add_styles", "", add_styles(work), rng)

FormatFloats == Pass("format_floats", FormatFloatsRaises(work), format_floats(work), rng)

CleanUp == Pass("clean_up", "", clean_up(work), rng)

\* return etree.tostring(newdoc, pretty_print=True).decode()
Return ==
    /\ pc = "tostring"
    /\ Finish(Returned(DocToString(work)), part, fresh)
    /\ UNCHANGED <<xml, placeholders, seed, question, rng, attempt, options,
                   part, work, stages, log, calls, fresh, metadata, calc, threads>>

RenderStep ==
    \/ ResolvePlaceholders
    \/ HideUnwantedFeedback
    \/ HideIfRole
    \/ SetInputValuesAndReadonly
    \/ SoftenValidation
    \/ DefuseButtons
    \/ ShuffleContents
    \/ AddStyles
    \/ FormatFloats
    \/ CleanUp
    \/ Return

Next ==
    \/ render_formulation
    \/ render_general_feedback
    \/ render_specific_feedback
    \/ render_right_answer
    \/ RenderStep

Spec == Init /\ [][Next]_vars

\* ------------------------------------------------------- a process of renders
SessionDocs == {"shuffle.xhtml"}

\* the attempt and the options every render of the process is called with
SessionInputs ==
    {[attempt |-> Some([choice |-> "B", sel |-> "2", sel2 |-> "2", txt |-> "hello"]),
      options |-> Options(FALSE, TRUE, FALSE, Role("teacher"))]}

\* up to MaxCalls render calls, on one renderer or on renderers constructed in
\* between for the same XML and placeholders
InitSession ==
    /\ xml \in SessionDocs
    /\ \E inp \in SessionInputs : attempt = inp.attempt /\ options = inp.options
    /\ calls = MaxCalls
    /\ InitRenderer

\* QuestionUIRenderer(xml, placeholders, seed)
Construct(sd) ==
    /\ pc = "idle"
    /\ fresh # "new"
    /\ calls > 0
    /\ seed' = sd
    /\ question' = ParseDoc(xml)
    /\ fresh' = "new"
    /\ byPart' = [p \in Parts |-> <<>>]
    /\ UNCHANGED <<xml, placeholders, rng, attempt, options, pc, part, work, stages,
                   log, result, calls, bySeed, metadata, calc, threads>>

\* other code of the process draws from the process-wide generator before the
\* first render of a renderer
Draw ==
    /\ pc = "idle"
    /\ fresh = "new"
    /\ rng' = RandBelow(2, rng).rng
    /\ UNCHANGED <<xml, placeholders, seed, question, attempt, options, pc, part, work,
                   stages, log, result, calls, fresh, bySeed, byPart, metadata, calc,
                   threads>>

NextSession ==
    \/ Next
    \/ \E sd \in Seeds : Construct(sd)
    \/ Draw

SpecSession == InitSession /\ [][NextSession]_vars

\* ------------------------------------------- one render of a shuffled document
ShuffleOptions == {None, Options(TRUE, TRUE, TRUE, Role("teacher"))}

\* one render call on a new renderer of a document with shuffled lists
InitShuffle ==
    /\ xml \in ShuffleDocs
    /\ attempt \in AttemptChoices
    /\ options \in ShuffleOptions
    /\ calls = 1
    /\ InitRenderer

SpecShuffle == InitShuffle /\ [][Next]_vars

\* -------------------------------------------------- metadata between renders
\* renderer.get_metadata(): the variable holds what the last call returned,
\* with the document of the renderer at the call
GetMetadata ==
    /\ pc = "idle"
    /\ metadata' = Some([document |-> question, returned |-> get_metadata(question)])
    /\ UNCHANGED <<xml, placeholders, seed, question, rng, attempt, options, pc, part, work,
                   stages, log, result, calls, fresh, bySeed, byPart, calc, threads>>

\* a renderer of a metadata document, on which get_metadata is called before,
\* between and after up to MaxCalls render calls; the document has nothing to
\* shuffle, and the renderer is constructed without a seed
InitMetadata ==
    /\ xml \in MetadataDocs
    /\ seed = None
    /\ rng = 0
    /\ \E inp \in SessionInputs : attempt = inp.attempt /\ options = inp.options
    /\ calls = MaxCalls
    /\ InitRenderer

NextMetadata ==
    \/ Next
    \/ GetMetadata

SpecMetadata == InitMetadata /\ [][NextMetadata]_vars

\* ------------------------------------ render calls in two threads of a process
ThreadDocs == {"shuffle.xhtml", "feedbacks.xhtml"}
ThreadSeeds == {Some(1), Some(2)}

\* render_part of the formulation up to the call of shuffle_contents, without
\* attempt and options: the tree of the call
UpToShuffle(x) ==
    defuse_buttons(soften_validation(set_input_values_and_readonly(
        hide_if_role(hide_unwanted_feedback(
            resolve_placeholders(NewDiv(FindAll(ParseDoc(x), "formulation")[1]),
                                 PlaceholderMap),
            None), None),
        None, None)))

\* render_part from the call of add_styles on: the string it returns
AfterShuffle(t) == DocToString(clean_up(format_floats(add_styles(t))))

\* render_formulation() on a new renderer, run alone with the generator in the
\* state r
RenderedAlone(x, sd, r) == AfterShuffle(shuffle_contents(UpToShuffle(x), sd, r).tree)

\* two threads, each about to call render_formulation() on a renderer of its
\* own; the threads share the generator of the random module
InitThreads ==
    /\ xml = "feedbacks.xhtml"
    /\ attempt = None
    /\ options = None
    /\ calls = 0
    /\ placeholders = PlaceholderMap
    /\ seed = None
    /\ question = ParseDoc(xml)
    /\ rng \in 0..(RngMod - 1)
    /\ pc = "idle"
    /\ part = ""
    /\ work = EmptyDiv
    /\ stages = <<>>
    /\ log = <<>>
    /\ result = NoResult
    /\ fresh = "new"
    /\ bySeed = [s \in Seeds |-> <<>>]
    /\ byPart = [p \in Parts |-> <<>>]
    /\ metadata = NoMetadata
    /\ calc = NoCalc
    /\ threads \in [1..2 -> [xml : ThreadDocs, seed : ThreadSeeds, pc : {"start"},
                              work : {EmptyDiv}, read : {-1}, result : {""}]]

ThreadStep(i, at, thread, r) ==
    /\ threads # NoThreads
    /\ threads[i].pc = at
    /\ threads' = [threads EXCEPT ![i] = thread]
    /\ rng' = r
    /\ UNCHANGED <<xml, placeholders, seed, question, attempt, options, pc, part, work,
                   stages, log, result, calls, fresh, bySeed, byPart, metadata, calc>>

\* the passes before shuffle_contents work on the tree of the call only
ThreadStart(i) ==
    ThreadStep(i, "start",
               [threads[i] EXCEPT !.pc = "seed", !.work = UpToShuffle(threads[i].xml)], rng)

\* if self.seed: random.seed(self.seed)
ThreadSeed(i) ==
    ThreadStep(i, "seed", [threads[i] EXCEPT !.pc = "shuffle"],
               SeedIfTruthy(threads[i].seed, rng))

\* the loop of shuffle_contents, which draws from the generator as it is now
ThreadShuffle(i) ==
    ThreadStep(i, "shuffle",
               [threads[i] EXCEPT !.pc = "rest", !.read = rng,
                                  !.work = shuffle_contents(threads[i].work, None, rng).tree],
               shuffle_contents(threads[i].work, None, rng).rng)

\* the passes after shuffle_contents and the serialization
ThreadRest(i) ==
    ThreadStep(i, "rest",
               [threads[i] EXCEPT !.pc = "done", !.result = AfterShuffle(threads[i].work)],
               rng)

NextThreads ==
    \E i \in 1..2 :
       \/ ThreadStart(i)
       \/ ThreadSeed(i)
       \/ ThreadShuffle(i)
       \/ ThreadRest(i)

SpecThreads == InitThreads /\ [][NextThreads]_vars

\* ------------------------------------------------ calls of the pure functions
MaxIndex == 4100
MaxLetter == 26

FloatTexts == {"1234.5", "-0.5", "-1234.25", "1.10", "42", "0.5", "-0.04", "1234567.125"}

\* the qpy:format-float elements the functions are called with
FloatElements ==
    {Q("format-float", p \o z \o g, text, <<>>, "") :
        p \in {<<>>, <<<<"precision", "0">>>>, <<<<"precision", "1">>>>,
               <<<<"precision", "2">>>>, <<<<"precision", "3">>>>},
        z \in {<<>>, <<<<"strip-zeros", "">>>>},
        g \in {<<>>, <<<<"thousands-separator", "yes">>>>},
        text \in FloatTexts}

\* a call of one of the functions with one argument
InitFunctions ==
    /\ xml = "feedbacks.xhtml"
    /\ attempt = None
    /\ options = None
    /\ calls = 0
    /\ placeholders = PlaceholderMap
    /\ seed = None
    /\ question = ParseDoc(xml)
    /\ rng = 0
    /\ pc = "idle"
    /\ part = ""
    /\ work = EmptyDiv
    /\ stages = <<>>
    /\ log = <<>>
    /\ result = NoResult
    /\ fresh = "new"
    /\ bySeed = [s \in Seeds |-> <<>>]
    /\ byPart = [p \in Parts |-> <<>>]
    /\ metadata = NoMetadata
    /\ threads = NoThreads
    /\ calc \in [fn : {"int_to_roman"}, arg : 1..MaxIndex, out : {None}]
              \cup [fn : {"int_to_letter"}, arg : 1..MaxLetter, out : {None}]
              \cup [fn : {"format_floats"}, arg : FloatElements, out : {None}]

Returns(fn, value) ==
    /\ calc.fn = fn
    /\ calc.out = None
    /\ calc' = [calc EXCEPT !.out = Some(value)]
    /\ UNCHANGED <<xml, placeholders, seed, question, rng, attempt, options, pc, part, work,
                   stages, log, result, calls, fresh, bySeed, byPart, metadata, threads>>

\* int_to_roman(index): the numeral, with the last entry of val that was read
IntToRoman ==
    Returns("int_to_roman", [text |-> Concat(int_to_roman(calc.arg), 1),
                             reads |-> RomanReads(calc.arg, 1)])

IntToLetter == Returns("int_to_letter", Concat(int_to_letter(calc.arg), 1))

\* the text format_floats gives the element
FormatFloat == Returns("format_floats", FormattedFloat(calc.arg))

NextFunctions ==
    \/ IntToRoman
    \/ IntToLetter
    \/ FormatFloat

SpecFunctions == InitFunctions /\ [][NextFunctions]_vars

\* ------------------------------------------------------------------ properties
\* a render call has ended
Done == pc = "idle" /\ part # ""

\* the elements of the parsed document with the QuestionPy tag, in document order
Matching(tag) ==
    LET d == Flatten(ParseDoc(xml))
    IN  SelectSeq(SubSeq(d, 2, Len(d)), LAMBDA n : n.kind = "element" /\ n.ns = "qpy"
                                                    /\ n.tag = tag)

RECURSIVE Prune(_, _)
\* the tree without the subtrees (and their tails) of the nodes that satisfy P
Prune(P(_), n) ==
    [n EXCEPT !.kids = LET keep == SelectSeq(n.kids, LAMBDA k : ~P(k))
                       IN  [i \in 1..Len(keep) |-> Prune(P, keep[i])]]

\* the identities of the nodes that satisfy P in the tree, and of their descendants
SubtreeIds(t, P(_)) ==
    LET f == Flatten(t) IN UNION {Ids(f[i]) : i \in {k \in 1..Len(f) : P(f[k])}}

\* C1: with a fixed truthy seed, every render of the formulation that is the
\* first call on a newly constructed renderer (same XML, placeholders, options
\* and attempt) returns the same outcome, whatever the process-wide generator
\* held before.
SameSeedSameFormulation ==
    \A s \in Seeds : Truthy(s) =>
        \A i, j \in 1..Len(bySeed[s]) : bySeed[s][i] = bySeed[s][j]

\* two new renderers with the same truthy seed have rendered the shuffled
\* formulation
SameSeedRenderedTwice ==
    /\ xml = "shuffle.xhtml"
    /\ \E s \in Seeds : /\ Truthy(s)
                        /\ Len(bySeed[s]) >= 2
                        /\ bySeed[s][1].kind = "str"

\* C2: render_part leaves the source tree of the renderer unchanged, so the
\* renders of one part on one renderer, with the same options and attempt, all
\* return the same outcome.
RepeatedRenderSame ==
    \A p \in Parts : \A i, j \in 1..Len(byPart[p]) : byPart[p][i] = byPart[p][j]

\* C3: render_formulation raises FormulationElementMissingError exactly when the
\* document has no qpy:formulation and never returns None; a render of an
\* optional part returns None, without raising, exactly when the document has no
\* such element; where the element is present the call is the rendering of the
\* first matching element.
AbsentPartOutcomes ==
    Done =>
        LET elements == Matching(part)
        IN  /\ part = "formulation" =>
                 /\ (result = Raised("FormulationElementMissingError"))
                        <=> (elements = <<>>)
                 /\ result.kind # "None"
            /\ part # "formulation" =>
                 /\ (result = ReturnedNone) <=> (elements = <<>>)
                 /\ elements = <<>> => result.kind # "raise"
            /\ elements # <<>> =>
                 /\ stages # <<>>
                 /\ stages[1].kids = elements[1].kids
                 /\ result.kind = "str" =>
                        result.value = DocToString(stages[Len(stages)])
                 /\ result.kind = "raise" => log # <<>>

\* the render of a general feedback the document does not have returned None
AbsentOptionalPartRendered ==
    /\ Done
    /\ part = "general-feedback"
    /\ Matching("general-feedback") = <<>>
    /\ result = ReturnedNone

\* C4 as stated: on a document without qpy:formulation each of the four renders
\* fails with FormulationElementMissingError.
NoFormulationAllFail ==
    (Done /\ Matching("formulation") = <<>>) =>
        result = Raised("FormulationElementMissingError")

\* C4 as the code has it: on a document without qpy:formulation,
\* render_formulation fails with FormulationElementMissingError; the renders of
\* the optional parts never fail with it: they return None where their own
\* element is absent and render it where it is present.
NoFormulationOnlyFormulationFails ==
    (Done /\ Matching("formulation") = <<>>) =>
        IF part = "formulation"
        THEN result = Raised("FormulationElementMissingError")
        ELSE /\ result # Raised("FormulationElementMissingError")
             /\ (result = ReturnedNone) <=> (Matching(part) = <<>>)

\* the right answer of a document without formulation was rendered to a string
NoFormulationRightAnswerRendered ==
    /\ Done
    /\ Matching("formulation") = <<>>
    /\ part = "right-answer"
    /\ result.kind = "str"

\* C5: before the first transformation the container holds the content of the
\* part element: its child nodes in their order, each with its text and tail,
\* and the text directly inside the part element before its first child.
ContentMoved ==
    stages # <<>> =>
        LET part_element == Matching(part)[1]
        IN  /\ stages[1].kids = part_element.kids
            /\ stages[1].text = part_element.text

TenPasses ==
    <<"resolve_placeholders", "hide_unwanted_feedback", "hide_if_role",
      "set_input_values_and_readonly", "soften_validation", "defuse_buttons",
      "shuffle_contents", "add_styles", "format_floats", "clean_up">>

Removed(p) ==
    IsPlaceholderPI(p) /\ p.text # "" /\ Split(p.text)[1] \notin DOMAIN placeholders
Replaced(p) ==
    IsPlaceholderPI(p) /\ p.text # "" /\ Split(p.text)[1] \in DOMAIN placeholders
ModeOf(p) == IF Len(Split(p.text)) > 1 THEN Lower(Split(p.text)[2]) ELSE "clean"

\* the markup inside an element
Content(n) == n.text \o KidsToString(n.kids, 1)
HasScript(n) ==
    \E i \in 1..Len(Flatten(n)) : IsElement(Flatten(n)[i]) /\ Flatten(n)[i].tag = "script"

\* r stands for the instruction p as its mode demands
ReplacementOK(p, r) ==
    LET raw == placeholders[Split(p.text)[1]]
    IN  /\ IsElement(r)
        /\ CASE ModeOf(p) = "plain" ->
                  r.kids = <<>> /\ r.text = raw /\ r.cdata
             [] ModeOf(p) = "noclean" ->
                  Content(r) = raw /\ (raw = RawParam => HasScript(r))
             [] OTHER ->
                  /\ ~HasScript(r)
                  /\ Content(r) = Content(FromString(CleanHtml(raw))[1])

RECURSIVE Resolved(_, _)
\* a is b with the instructions of missing keys removed, the instructions of
\* present keys replaced as their mode demands, and nothing else changed
Resolved(b, a) ==
    LET keep == SelectSeq(b.kids, LAMBDA k : ~Removed(k))
    IN  /\ Len(a.kids) = Len(keep)
        /\ \A i \in 1..Len(keep) :
              IF Replaced(keep[i]) THEN ReplacementOK(keep[i], a.kids[i])
              ELSE /\ [a.kids[i] EXCEPT !.kids = <<>>] = [keep[i] EXCEPT !.kids = <<>>]
                   /\ Resolved(keep[i], a.kids[i])

\* C7: placeholder resolution removes an instruction whose key is missing;
\* where the key is present, plain mode inserts the raw value as one literal
\* text, noclean mode inserts the markup of the raw value verbatim (its <script>
\* included), and clean mode or no mode inserts the sanitized value without the
\* sanitizer's wrapping element, so that a <script> of a rendered output comes
\* from a noclean instruction only.
PlaceholdersResolved ==
    Len(stages) >= 2 =>
        /\ Resolved(stages[1], stages[2])
        /\ (Done /\ result.kind = "str") =>
              LET out == Flatten(stages[Len(stages)])
                  src == Flatten(stages[1])
              IN  \A i \in 1..Len(out) :
                     (IsElement(out[i]) /\ out[i].tag = "script") =>
                        \E k \in 1..Len(src) :
                           /\ Replaced(src[k])
                           /\ ModeOf(src[k]) = "noclean"
                           /\ out[i].id \div IdStride = src[k].id

\* the formulation with an instruction of every mode and of a missing key was
\* rendered
EveryModeResolved ==
    /\ Done
    /\ xml = "placeholder.xhtml"
    /\ part = "formulation"
    /\ result.kind = "str"
    /\ \E i \in 1..Len(Flatten(stages[1])) : Removed(Flatten(stages[1])[i])
    /\ \A m \in {"clean", "noclean", "plain"} :
          \E i \in 1..Len(Flatten(stages[1])) :
             Replaced(Flatten(stages[1])[i]) /\ ModeOf(Flatten(stages[1])[i]) = m

\* the element is marked with a feedback kind the options disable
Unwanted(n) ==
    /\ options # None
    /\ HasFeedback(n)
    /\ \/ AttrGet(n.attrs, "qpy:feedback") = Some("general") /\ ~options[1].general_feedback
       \/ AttrGet(n.attrs, "qpy:feedback") = Some("specific") /\ ~options[1].feedback

\* C8: with options, the feedback filter removes exactly the elements marked
\* general where general feedback is off and the elements marked specific where
\* specific feedback is off, each with its subtree, and none of them is in any
\* later tree of the render; an element of an enabled kind is not removed for
\* its marking; without options the filter changes nothing.
FeedbackFiltered ==
    Len(stages) >= 3 =>
        /\ stages[3] = Prune(Unwanted, stages[2])
        /\ \A k \in 3..Len(stages) :
              Ids(stages[k]) \cap SubtreeIds(stages[2], Unwanted) = {}
        /\ options = None => stages[3] = stages[2]

\* a render with general feedback off and specific feedback on removed and kept
\* marked elements
OneKindHidden ==
    /\ Done
    /\ result.kind = "str"
    /\ xml = "feedbacks.xhtml"
    /\ part = "formulation"
    /\ options # None
    /\ ~options[1].general_feedback /\ options[1].feedback
    /\ SubtreeIds(stages[2], Unwanted) # {}
    /\ \E i \in 1..Len(Flatten(stages[3])) :
          AttrGet(Flatten(stages[3])[i].attrs, "qpy:feedback") = Some("specific")

\* the role of the options' context does not open the element
Denied(n) ==
    /\ HasIfRole(n)
    /\ options[1].context.role # "admin"
    /\ ~InList(options[1].context.role, Split(AttrGet(n.attrs, "qpy:if-role")[1]))

\* C9: with options whose context has a role, the role filter removes exactly
\* the elements whose qpy:if-role does not name the role, unless the role is
\* admin, each with its subtree; none of them is in any later tree of the
\* render; every other element whose ancestors all survive survives.
RoleFiltered ==
    (Len(stages) >= 4 /\ options # None /\ "role" \in DOMAIN options[1].context) =>
        /\ stages[4] = Prune(Denied, stages[3])
        /\ \A k \in 4..Len(stages) :
              Ids(stages[k]) \cap SubtreeIds(stages[3], Denied) = {}

\* a teacher's render removed some role-dependent elements and kept others
TeacherFiltered ==
    /\ Done
    /\ result.kind = "str"
    /\ xml = "if-role.xhtml"
    /\ part = "formulation"
    /\ options # None
    /\ DictGet(options[1].context, "role") = Some("teacher")
    /\ SubtreeIds(stages[3], Denied) # {}
    /\ \E i \in 1..Len(Flatten(stages[4])) : HasIfRole(Flatten(stages[4])[i])

\* the options are absent or their context has no role
NoRole == options = None \/ "role" \notin DOMAIN options[1].context

\* C10 as stated: without options, or with options whose context has no role,
\* the role filter removes nothing.
NoRoleKeepsAll ==
    (Len(stages) >= 4 /\ NoRole) => stages[4] = stages[3]

\* C10 as the code has it: without options the role filter removes nothing;
\* with options whose context has no role it removes every element that has a
\* qpy:if-role attribute, with its subtree.
NoRoleRemovesAll ==
    Len(stages) >= 4 =>
        /\ options = None => stages[4] = stages[3]
        /\ (options # None /\ NoRole) => stages[4] = Prune(HasIfRole, stages[3])

\* a render with options without role removed the role-dependent elements
NoRoleFiltered ==
    /\ Done
    /\ xml = "if-role.xhtml"
    /\ part = "formulation"
    /\ options # None
    /\ NoRole
    /\ stages[4] # stages[3]
    /\ SubtreeIds(stages[3], HasIfRole) # {}

\* the nodes of the tree of the render after the k-th transformation
After(k) == Flatten(stages[k + 1])

\* the tree the render serialized
Output == stages[Len(stages)]

\* a form control by its local name, whatever its namespace
IsControl(n) == IsElement(n) /\ n.tag \in {"input", "select", "textarea", "button"}

\* the response holds a value for the name of the element
Stored(n) ==
    /\ attempt # None
    /\ HasAttr(n.attrs, "name")
    /\ AttrGet(n.attrs, "name")[1] \in DOMAIN attempt[1]
StoredValue(n) == attempt[1][AttrGet(n.attrs, "name")[1]]

\* C11: with options.readonly true, every input, select, textarea and button
\* of the rendered formulation has a disabled attribute, whether it was
\* authored in the document or inserted by a placeholder value, named or not.
ReadonlyDisablesAll ==
    (Done /\ part = "formulation" /\ result.kind = "str"
          /\ options # None /\ options[1].readonly) =>
        \A i \in 1..Len(Flatten(Output)) :
            IsControl(Flatten(Output)[i]) => HasAttr(Flatten(Output)[i].attrs, "disabled")

\* C12: after hydration an input of type checkbox or radio whose name has a
\* stored value v has a checked attribute if and only if its value attribute
\* equals v.
CheckedIffValueMatches ==
    Len(stages) >= 5 =>
        \A i \in 1..Len(After(4)) :
            LET n == After(4)[i]
            IN  (IsX(n, "input") /\ AttrGet(n.attrs, "type") \in {Some("checkbox"), Some("radio")}
                 /\ Stored(n)) =>
                    (HasAttr(n.attrs, "checked")
                        <=> AttrGet(n.attrs, "value") = Some(StoredValue(n)))

\* the option stands for the value v: by its value attribute, or by its text
\* where it has no value attribute
OptionMatches(o, v) ==
    IF HasAttr(o.attrs, "value") THEN AttrGet(o.attrs, "value") = Some(v) ELSE o.text = v

\* C13: after hydration every select whose name has a stored value v and that
\* has a child option matching v has a matching child option with
\* selected="selected", also where several selects share the name; an option
\* that does not match v gains no selected attribute.
SelectedPerSelect ==
    Len(stages) >= 5 =>
        \A i \in 1..Len(After(4)) :
            LET s == After(4)[i]
                opts == SelectSeq(s.kids, LAMBDA o : IsX(o, "option"))
            IN  (IsX(s, "select") /\ Stored(s)) =>
                    /\ (\E k \in 1..Len(opts) : OptionMatches(opts[k], StoredValue(s))) =>
                           \E k \in 1..Len(opts) :
                              /\ OptionMatches(opts[k], StoredValue(s))
                              /\ AttrGet(opts[k].attrs, "selected") = Some("selected")
                    /\ \A k \in 1..Len(opts) :
                           (~OptionMatches(opts[k], StoredValue(s))
                            /\ HasAttr(opts[k].attrs, "selected")) =>
                               HasAttr(Find(stages[4], opts[k].id).attrs, "selected")

\* the mapping table of validation softening: the source attribute, the tags
\* it is rewritten on, the target attributes, and whether the targets get the
\* literal "true" instead of the source's value
SofteningRules ==
    {[src |-> "pattern", tags |-> {"input"}, targets |-> {"data-qpy_pattern"},
      literal |-> FALSE],
     [src |-> "required", tags |-> {"input", "select", "textarea"},
      targets |-> {"data-qpy_required", "aria-required"}, literal |-> TRUE],
     [src |-> "minlength", tags |-> {"input", "textarea"},
      targets |-> {"data-qpy_minlength"}, literal |-> FALSE],
     [src |-> "maxlength", tags |-> {"input", "textarea"},
      targets |-> {"data-qpy_maxlength"}, literal |-> FALSE],
     [src |-> "min", tags |-> {"input"}, targets |-> {"data-qpy_min", "aria-valuemin"},
      literal |-> FALSE],
     [src |-> "max", tags |-> {"input"}, targets |-> {"data-qpy_max", "aria-valuemax"},
      literal |-> FALSE]}

\* the rule applies to the element
RuleApplies(r, n) == IsElement(n) /\ n.ns = "xhtml" /\ n.tag \in r.tags

\* the element m is the element n after the rule r, where every source
\* attribute is rewritten (emptyToo) or only one with a value that is not empty
SoftenedBy(r, n, m, emptyToo) ==
    /\ ~HasAttr(m.attrs, r.src)
    /\ \A tgt \in r.targets :
          IF HasAttr(n.attrs, r.src)
             /\ (emptyToo \/ r.literal \/ AttrGet(n.attrs, r.src) # Some(""))
          THEN AttrGet(m.attrs, tgt)
                  = Some(IF r.literal THEN "true" ELSE AttrGet(n.attrs, r.src)[1])
          ELSE AttrGet(m.attrs, tgt) = AttrGet(n.attrs, tgt)

\* read in the state the softening pass leaves: stages only grows after it
SoftenedAll(emptyToo) ==
    Len(stages) = 6 =>
        LET before == After(4)
        IN  \A i \in 1..Len(before) : \A r \in SofteningRules :
                RuleApplies(r, before[i]) =>
                    /\ InTree(stages[6], before[i].id)
                    /\ SoftenedBy(r, before[i], Find(stages[6], before[i].id), emptyToo)

\* C14 as stated: after validation softening no element a rule applies to has
\* the source attribute, every element that had it has each target attribute
\* with the source's value ("true" for required), and an element that did not
\* have it gains no target attribute.
SoftenedPerTable == SoftenedAll(TRUE)

\* C14 as the code has it: after validation softening no element a rule
\* applies to has the source attribute; an element that had it with a value
\* that is not empty has each target attribute with that value, and one that
\* had required has the targets with "true" whatever its value; an element that
\* had the source attribute with an empty value, or did not have it, gains no
\* target attribute.
SoftenedUnlessEmpty == SoftenedAll(FALSE)

\* the softening of an input with source attributes of every rule, one of them
\* empty, next to controls without them
EmptyAndFilledSoftened ==
    /\ Len(stages) >= 6
    /\ xml = "controls.xhtml"
    /\ part = "formulation"
    /\ \E i \in 1..Len(After(4)) :
          /\ IsX(After(4)[i], "input")
          /\ AttrGet(After(4)[i].attrs, "maxlength") = Some("")
          /\ \A r \in SofteningRules : HasAttr(After(4)[i].attrs, r.src)
          /\ ~HasAttr(Find(stages[6], After(4)[i].id).attrs, "data-qpy_maxlength")
          /\ HasAttr(Find(stages[6], After(4)[i].id).attrs, "data-qpy_minlength")

\* C15: the rendered output of a part holds no input or button of type submit
\* or reset; the button defusing gives each of them the type button and leaves
\* the type of every other element as it was.
NoSubmitOrReset ==
    /\ Len(stages) >= 7 =>
          \A i \in 1..Len(After(5)) :
             LET n == After(5)[i]
                 m == Find(stages[7], n.id)
             IN  IsElement(n) =>
                    IF n.tag \in {"input", "button"}
                       /\ AttrGet(n.attrs, "type") \in {Some("submit"), Some("reset")}
                    THEN AttrGet(m.attrs, "type") = Some("button")
                    ELSE AttrGet(m.attrs, "type") = AttrGet(n.attrs, "type")
    /\ (Done /\ result.kind = "str") =>
          \A i \in 1..Len(Flatten(Output)) :
             LET n == Flatten(Output)[i]
             IN  (IsElement(n) /\ n.tag \in {"input", "button"}) =>
                    AttrGet(n.attrs, "type") \notin {Some("submit"), Some("reset")}

\* the node of the tree before the shuffle that a node after it stands for: the
\* <span> that replaced a qpy:shuffled-index marker stands for the marker
Origin(before, id) == IF InTree(before, id) THEN id ELSE id \div IdStride

\* the children of a node as the list of the nodes they stand for
OriginKids(before, m) == [j \in 1..Len(m.kids) |-> Origin(before, m.kids[j].id)]

\* C16: after the shuffle pass every element that was marked
\* qpy:shuffle-contents has exactly the children it had, each once (the same
\* number of children and the same set), and no marker attribute; every other
\* node has the children it had, in the order it had them.
ShuffleIsPermutation ==
    Len(stages) = 8 =>
        LET before == Flatten(stages[7])
        IN  \A i \in 1..Len(before) :
               LET n == before[i]
                   m == Find(stages[8], n.id)
               IN  IF HasShuffle(n)
                   THEN /\ InTree(stages[8], n.id)
                        /\ ~HasAttr(m.attrs, "qpy:shuffle-contents")
                        /\ Len(m.kids) = Len(n.kids)
                        /\ {m.kids[j].id : j \in 1..Len(m.kids)}
                              = {n.kids[j].id : j \in 1..Len(n.kids)}
                   ELSE IF InTree(stages[8], n.id)
                        THEN OriginKids(stages[7], m) = [j \in 1..Len(n.kids) |-> n.kids[j].id]
                        ELSE IsQ(n, "shuffled-index") /\ n.kids = <<>>

\* a shuffle that changed the order of the children of a marked element
ShuffleReordered ==
    /\ Len(stages) = 8
    /\ \E i \in 1..Len(Flatten(stages[7])) :
          LET n == Flatten(stages[7])[i]
          IN  /\ HasShuffle(n)
              /\ Len(n.kids) >= 3
              /\ OriginKids(stages[7], Find(stages[8], n.id))
                    # [j \in 1..Len(n.kids) |-> n.kids[j].id]

\* the numbering styles written out for the positions of the documents
Numbered(format_style, i) ==
    CASE format_style = "abc" -> <<"a", "b", "c", "d">>[i]
      [] format_style = "ABC" -> <<"A", "B", "C", "D">>[i]
      [] format_style = "iii" -> <<"i", "ii", "iii", "iv">>[i]
      [] format_style = "III" -> <<"I", "II", "III", "IV">>[i]
      [] OTHER -> <<"1", "2", "3", "4">>[i]

\* the marked element has no marked element above it
Outermost(t, n) ==
    /\ HasShuffle(n)
    /\ \A k \in 1..Len(Flatten(t)) :
          (HasShuffle(Flatten(t)[k]) /\ Flatten(t)[k].id # n.id)
             => ~InTree(Flatten(t)[k], n.id)

\* the marker d of the child that is now at position i is replaced in the tree
\* by a <span> with the position in the marker's style and the marker's tail
MarkerReplaced(t, d, i) ==
    /\ ~InTree(t, d.id)
    /\ InTree(t, d.id * IdStride)
    /\ Find(t, d.id * IdStride).tag = "span"
    /\ Find(t, d.id * IdStride).text = Numbered(AttrGetD(d.attrs, "format", "123"), i)
    /\ Find(t, d.id * IdStride).tail = d.tail

\* C17: after the shuffle pass, for every marked element (the outermost one
\* where marked elements nest) and its child now at position i, every
\* qpy:shuffled-index descendant the child had is replaced by i in the style of
\* its format attribute (Arabic for 123, no format and an unknown format), and
\* the replacement has the tail of the marker.
IndicesFollowPosition ==
    Len(stages) = 8 =>
        LET before == Flatten(stages[7])
        IN  \A k \in 1..Len(before) :
               Outermost(stages[7], before[k]) =>
                  LET m == Find(stages[8], before[k].id)
                  IN  \A i \in 1..Len(m.kids) :
                         InTree(stages[7], m.kids[i].id) =>
                            LET ds == Descendants(Find(stages[7], m.kids[i].id))
                            IN  \A j \in 1..Len(ds) :
                                   IsQ(ds[j], "shuffled-index") =>
                                      /\ MarkerReplaced(stages[8], ds[j], i)
                                      /\ InTree(m.kids[i], ds[j].id * IdStride)

\* a marker of each style and of an unknown style was replaced in a child that
\* the shuffle moved to another position
MovedIndicesReplaced ==
    /\ Len(stages) = 8
    /\ xml = "shuffle.xhtml"
    /\ part = "general-feedback"
    /\ \E k \in 1..Len(Flatten(stages[7])) :
          LET n == Flatten(stages[7])[k]
              m == Find(stages[8], n.id)
          IN  /\ HasShuffle(n)
              /\ Len(n.kids) = 3
              /\ \A i \in 1..3 : m.kids[i].id # n.kids[i].id
              /\ \E i \in 1..3 : \E j \in 1..Len(Descendants(n.kids[i])) :
                    /\ AttrGet(Descendants(n.kids[i])[j].attrs, "format") = Some("xyz")
                    /\ Descendants(n.kids[i])[j].tail = " three"
                    /\ InTree(stages[8], Descendants(n.kids[i])[j].id * IdStride)

\* the class names of the element, as a list
ClassNames(n) == Split(AttrGetD(n.attrs, "class", ""))

\* how often the name is in the list
Times(l, c) == Cardinality({i \in 1..Len(l) : l[i] = c})

\* the class names that the style annotation owes the element
ClassesFor(n) ==
    IF IsX(n, "select") \/ IsX(n, "textarea")
       \/ (IsX(n, "input")
           /\ ~TypeIn(n, {"checkbox", "radio", "button", "submit", "reset"}))
    THEN {"form-control", "qpy-input"}
    ELSE IF IsX(n, "button") \/ (IsX(n, "input") /\ TypeIn(n, {"button", "submit", "reset"}))
    THEN {"btn", "btn-primary", "qpy-input"}
    ELSE IF IsX(n, "input") /\ TypeIn(n, {"checkbox", "radio"})
    THEN {"qpy-input"}
    ELSE {}

\* C18: after the style annotation every input whose type is none of
\* checkbox/radio/button/submit/reset (an input without type among them), every
\* select and every textarea has the classes form-control and qpy-input, every
\* button and every input of type button/submit/reset has btn, btn-primary and
\* qpy-input, every checkbox and radio input has qpy-input; the classes the
\* element had are kept and no added name is written twice.
StylesAnnotated ==
    Len(stages) = 9 =>
        LET before == Flatten(stages[8])
        IN  \A i \in 1..Len(before) :
               (IsElement(before[i]) /\ before[i].ns = "xhtml") =>
                  LET had == ClassNames(before[i])
                      has == ClassNames(Find(stages[9], before[i].id))
                  IN  /\ \A c \in ClassesFor(before[i]) : Times(has, c) = 1
                      /\ \A j \in 1..Len(had) : InList(had[j], has)

\* the attribute name is written with the prefix of the QuestionPy namespace
InQpyNamespace(name) == Len(name) >= 4 /\ SubSeq(name, 1, 4) = "qpy:"

\* the ids of the nodes at or below an element of the QuestionPy namespace
BelowQpy(t) ==
    UNION {Ids(Flatten(t)[i]) :
              i \in {k \in 1..Len(Flatten(t)) :
                        IsElement(Flatten(t)[k]) /\ Flatten(t)[k].ns = "qpy"}}

\* C19: after the cleanup no element of the QuestionPy namespace and no node
\* below one is left, no element that is left has an attribute of the
\* QuestionPy namespace, no comment is left, and every XHTML element that was
\* in the tree before the cleanup and not below a QuestionPy element is still
\* in the tree.
CleanedUp ==
    Len(stages) = 11 =>
        LET before == Flatten(stages[10])
            after == Flatten(stages[11])
            gone == BelowQpy(stages[10])
        IN  /\ \A i \in 1..Len(after) :
                  /\ after[i].kind # "comment"
                  /\ after[i].ns # "qpy"
                  /\ after[i].id \notin gone
                  /\ \A j \in 1..Len(after[i].attrs) : ~InQpyNamespace(after[i].attrs[j][1])
            /\ \A i \in 1..Len(before) :
                  (IsElement(before[i]) /\ before[i].ns = "xhtml" /\ before[i].id \notin gone)
                     => InTree(stages[11], before[i].id)

\* a cleanup of a tree with an XHTML element below a QuestionPy element, an
\* attribute of the QuestionPy namespace and a comment, that leaves an XHTML
\* element
ResidueCleaned ==
    /\ Len(stages) = 11
    /\ \E i \in 1..Len(Flatten(stages[10])) :
          LET n == Flatten(stages[10])[i]
          IN  /\ IsElement(n) /\ n.ns = "qpy"
              /\ \E j \in 1..Len(n.kids) : n.kids[j].ns = "xhtml"
    /\ \E i \in 1..Len(Flatten(stages[10])) : Flatten(stages[10])[i].kind = "comment"
    /\ \E i \in 1..Len(Flatten(stages[10])) :
          \E j \in 1..Len(Flatten(stages[10])[i].attrs) :
             InQpyNamespace(Flatten(stages[10])[i].attrs[j][1])
    /\ Len(stages[11].kids) > 0

\* the elements of the document that the claim has get_metadata record: the
\* elements below a formulation with a qpy:correct-response attribute, a name
\* that is not empty and a value that is not empty, where the value of a radio
\* input is its value attribute and the value of another element is the
\* attribute
ResponseOf(n) ==
    IF n.tag = "input" /\ AttrGet(n.attrs, "type") = Some("radio")
    THEN AttrGet(n.attrs, "value")
    ELSE AttrGet(n.attrs, "qpy:correct-response")

Recorded(q) ==
    SelectSeq(FormulationDescendants(q),
              LAMBDA n : /\ HasAttr(n.attrs, "qpy:correct-response")
                         /\ AttrGet(n.attrs, "name") \notin {None, Some("")}
                         /\ ResponseOf(n) \notin {None, Some("")})

NameOf(n) == AttrGet(n.attrs, "name")[1]

Keys(d) == {d[i][1] : i \in 1..Len(d)}

\* the keys of correct_response are the names of the recorded elements
KeysAreRecordedNames(rec, d) ==
    /\ Keys(d) = {NameOf(rec[i]) : i \in 1..Len(rec)}
    /\ \A i, j \in 1..Len(d) : d[i][1] = d[j][1] => i = j

\* C20 as stated: correct_response has the entry name -> value of every
\* recorded element, and no other entry.
EveryResponseRecorded ==
    metadata # NoMetadata =>
        LET rec == Recorded(metadata[1].document)
            d == metadata[1].returned.correct_response
        IN  /\ KeysAreRecordedNames(rec, d)
            /\ \A i \in 1..Len(rec) : AttrGet(d, NameOf(rec[i])) = ResponseOf(rec[i])

\* C20 as the code has it: correct_response has one entry for every name of a
\* recorded element, and no other entry; the value of the entry is the value
\* of the last recorded element of that name in document order.
LastResponseRecorded ==
    metadata # NoMetadata =>
        LET rec == Recorded(metadata[1].document)
            d == metadata[1].returned.correct_response
        IN  /\ KeysAreRecordedNames(rec, d)
            /\ \A i \in 1..Len(rec) :
                  (\A j \in (i + 1)..Len(rec) : NameOf(rec[j]) # NameOf(rec[i]))
                     => AttrGet(d, NameOf(rec[i])) = ResponseOf(rec[i])

\* get_metadata returned the responses of a document in which a radio input,
\* other elements, two elements of one name and elements that are skipped
\* carry the attribute
ResponsesExtracted ==
    /\ metadata # NoMetadata
    /\ AttrGet(metadata[1].returned.correct_response, "my_radio") = Some("2")
    /\ AttrGet(metadata[1].returned.correct_response, "my_number") = Some("42")
    /\ AttrGet(metadata[1].returned.correct_response, "boxes") = Some("b")
    /\ Len(Recorded(metadata[1].document)) = 7
    /\ Len(SelectSeq(FormulationDescendants(metadata[1].document),
                     LAMBDA n : HasAttr(n.attrs, "qpy:correct-response"))) = 11

\* the XHTML input, select, textarea and button elements below a formulation
\* that have a name (one that is not empty)
NamedControls(q) ==
    SelectSeq(Descendants(q),
              LAMBDA n : /\ \E i \in 1..Len(Descendants(q)) :
                               /\ IsQ(Descendants(q)[i], "formulation")
                               /\ Descendants(q)[i].id # n.id
                               /\ InTree(Descendants(q)[i], n.id)
                         /\ IsElement(n)
                         /\ n.ns = "xhtml"
                         /\ n.tag \in {"input", "select", "textarea", "button"}
                         /\ AttrGet(n.attrs, "name") \notin {None, Some("")})

\* C21: expected_data has as keys exactly the names of the named input,
\* select, textarea and button elements below formulation, each with the value
\* "Any"; required_fields holds exactly the names of those of them that have a
\* required attribute; an element outside formulation adds nothing.
ExpectedDataOfControls ==
    metadata # NoMetadata =>
        LET ctl == NamedControls(metadata[1].document)
            e == metadata[1].returned.expected_data
            r == metadata[1].returned.required_fields
        IN  /\ Keys(e) = {NameOf(ctl[i]) : i \in 1..Len(ctl)}
            /\ \A i \in 1..Len(e) : e[i][2] = "Any"
            /\ \A i, j \in 1..Len(e) : e[i][1] = e[j][1] => i = j
            /\ {r[i] : i \in 1..Len(r)}
                  = {NameOf(ctl[i]) : i \in {k \in 1..Len(ctl) : HasAttr(ctl[k].attrs, "required")}}

\* get_metadata returned the fields of a document with controls of the four
\* kinds, required ones among them, a control without a name and a required
\* control outside the formulation
FieldsExtracted ==
    /\ metadata # NoMetadata
    /\ Len(NamedControls(metadata[1].document)) = 12
    /\ {"my_number", "my_select", "my_text", "my_button"}
          \subseteq Keys(metadata[1].returned.expected_data)
    /\ metadata[1].returned.required_fields = <<"my_number", "empty">>
    /\ "outside" \in {AttrGetD(Descendants(metadata[1].document)[i].attrs, "name", "")
                         : i \in 1..Len(Descendants(metadata[1].document))}

\* C22: get_metadata leaves the document of the renderer as it is, and whenever
\* it is called on a renderer, before or after render calls, it returns what it
\* returns on the renderer as constructed.
MetadataIndependentOfRenders ==
    /\ [](metadata # NoMetadata => metadata[1].returned = get_metadata(ParseDoc(xml)))
    /\ [][GetMetadata => question' = question]_vars

\* a placeholder instruction of the tree whose key is in the map and whose mode
\* word is none of clean, noclean, plain
HasUnknownMode(t) ==
    \E i \in 1..Len(Flatten(t)) :
       LET p == Flatten(t)[i]
       IN  /\ IsPlaceholderPI(p)
           /\ p.text # ""
           /\ PIKey(p) \in DOMAIN placeholders
           /\ Lower(PIMode(p)) \notin {"clean", "noclean", "plain"}

\* C23: a render of a formulation that holds a placeholder instruction with a
\* key of the map and a mode word that is none of clean, noclean, plain does
\* not abort: render_formulation returns a string.
UnknownModeStillRenders ==
    (Done /\ part = "formulation" /\ Len(stages) > 0 /\ HasUnknownMode(stages[1]))
       => result.kind = "str"

\* the tree that the passes of render_part up to the shuffle leave of the
\* container t for the response data a, with the generator in the state r
ShuffledFor(t, a, r) ==
    shuffle_contents(
        defuse_buttons(soften_validation(set_input_values_and_readonly(
            hide_if_role(hide_unwanted_feedback(resolve_placeholders(t, placeholders),
                                                options), options),
            a, options))),
        seed, r).tree

\* the children of every node of the one tree are the children of the node in
\* the other tree, in the same order
SameOrder(t, u) ==
    \A i \in 1..Len(Flatten(t)) :
       /\ InTree(u, Flatten(t)[i].id)
       /\ [j \in 1..Len(Flatten(t)[i].kids) |-> Flatten(t)[i].kids[j].id]
             = [j \in 1..Len(Find(u, Flatten(t)[i].id).kids)
                   |-> Find(u, Flatten(t)[i].id).kids[j].id]

\* C24: with a truthy seed, the tree after the shuffle has the children of
\* every element in the order they have after the shuffle of a render of the
\* same document with the same placeholders, options and seed and any other
\* response data, whatever state the generator is in at that render.
OrderIndependentOfResponse ==
    (Len(stages) = 8 /\ Truthy(seed)) =>
        \A a \in AttemptChoices : \A r \in 0..(RngMod - 1) :
            SameOrder(stages[8], ShuffledFor(stages[1], a, r))

\* a shuffle that reordered the children of a container whose controls the
\* response data changed, under a truthy seed
HydratedThenShuffled ==
    /\ Len(stages) = 8
    /\ Truthy(seed)
    /\ attempt # None
    /\ stages[5] # stages[4]
    /\ \E i \in 1..Len(Flatten(stages[7])) :
          /\ HasShuffle(Flatten(stages[7])[i])
          /\ Find(stages[8], Flatten(stages[7])[i].id).kids # Flatten(stages[7])[i].kids
    /\ ShuffledFor(stages[1], None, rng) # stages[8]

\* the marked elements of the tree that have the node below one of their
\* children, from the outermost to the innermost
Enclosing(t, id) ==
    SelectSeq(Flatten(t),
              LAMBDA c : /\ HasShuffle(c)
                         /\ \E j \in 1..Len(c.kids) :
                               c.kids[j].id # id /\ InTree(c.kids[j], id))

\* where the child of the element c that holds the node is after the shuffle
PositionIn(t, c, id) ==
    CHOOSE j \in 1..Len(Find(t, c.id).kids) : InTree(Find(t, c.id).kids[j], id)

\* C28: after the shuffle pass a qpy:shuffled-index marker below a child of a
\* marked element is replaced by the position of the child of the innermost
\* marked element around it that holds it.
NumberedByNearest ==
    Len(stages) = 8 =>
        \A i \in 1..Len(Flatten(stages[7])) :
           LET d == Flatten(stages[7])[i]
               around == Enclosing(stages[7], d.id)
           IN  (IsQ(d, "shuffled-index") /\ around # <<>>) =>
                  MarkerReplaced(stages[8], d,
                                 PositionIn(stages[8], around[Len(around)], d.id * IdStride))

\* C26: for every seed the attempt route can assign (an integer, zero among
\* them), every render of the formulation on a new renderer with that seed
\* returns what the first such render returned, whatever was drawn from the
\* process-wide generator in between.
RouteSeedStable ==
    \A s \in Seeds : s # None =>
        \A i \in 1..Len(bySeed[s]) : bySeed[s][i] = bySeed[s][1]

\* the standard numerals of the thousands, hundreds, tens and ones
StandardRoman(n) ==
    <<"", "M", "MM", "MMM">>[(n \div 1000) + 1]
    \o <<"", "C", "CC", "CCC", "CD", "D", "DC", "DCC", "DCCC", "CM">>[((n \div 100) % 10) + 1]
    \o <<"", "X", "XX", "XXX", "XL", "L", "LX", "LXX", "LXXX", "XC">>[((n \div 10) % 10) + 1]
    \o <<"", "I", "II", "III", "IV", "V", "VI", "VII", "VIII", "IX">>[(n % 10) + 1]

\* C27: int_to_roman returns for every index from 1 on and reads no entry
\* behind the thirteenth of its table; for an index up to 3999 it returns the
\* standard subtractive numeral; int_to_letter returns the letter of the
\* alphabet at the index, for an index from 1 to 26.
NumeralsStandard ==
    calc.out # None =>
        /\ calc.fn = "int_to_roman" =>
              /\ calc.out[1].reads <= 13
              /\ calc.arg <= 3999 => calc.out[1].text = StandardRoman(calc.arg)
        /\ (calc.fn = "int_to_letter" /\ calc.arg <= 26) =>
              calc.out[1] = SubSeq("abcdefghijklmnopqrstuvwxyz", calc.arg, calc.arg)

\* int_to_roman has returned the numeral of 1994
Roman1994 ==
    /\ calc.fn = "int_to_roman"
    /\ calc.arg = 1994
    /\ calc.out # None
    /\ calc.out[1].text = "MCMXCIV"
    /\ calc.out[1].reads = 12

RECURSIVE Ungrouped(_, _)
\* the string from its i-th character on without the thousands separators
Ungrouped(str, i) ==
    IF i > Len(str) THEN ""
    ELSE (IF SubSeq(str, i, i) = "," THEN "" ELSE SubSeq(str, i, i)) \o Ungrouped(str, i + 1)

\* C29: the text of a qpy:format-float element with thousands-separator="yes"
\* is, with the separators deleted, the text of the same element without the
\* attribute: sign, integer digits and fraction are the same.
GroupingOnly ==
    (/\ calc.fn = "format_floats"
     /\ calc.out # None
     /\ AttrGet(calc.arg.attrs, "thousands-separator") = Some("yes"))
       => Ungrouped(calc.out[1], 1)
             = FormattedFloat([calc.arg EXCEPT !.attrs = AttrPop(@, "thousands-separator")])

\* C30: in the metadata get_metadata returns, every name that is a key of
\* correct_response is a key of expected_data.
CorrectResponsesExpected ==
    metadata # NoMetadata =>
        Keys(metadata[1].returned.correct_response)
           \subseteq Keys(metadata[1].returned.expected_data)

\* the tree has an element marked qpy:shuffle-contents
Shuffles(t) == \E i \in 1..Len(Flatten(t)) : HasShuffle(Flatten(t)[i])

\* the thread has returned what its render returns when it runs alone
AsAlone(th) ==
    \A r \in 0..(RngMod - 1) : th.result = RenderedAlone(th.xml, th.seed, r)

\* C25: a step of one thread changes nothing of the other thread (the
\* generator is all the two render calls share); a render of a document without
\* marked elements returns what it returns alone under every interleaving, and
\* so does a render whose shuffle found the generator as its own random.seed
\* left it; a render whose shuffle found the generator seeded by the other
\* thread is the race (RacedRender).
RaceOnGeneratorOnly ==
    /\ [](threads # NoThreads =>
            \A i \in 1..2 :
               (/\ threads[i].pc = "done"
                /\ \/ ~Shuffles(UpToShuffle(threads[i].xml))
                   \/ threads[i].read = SeedRng(threads[i].seed[1]))
                  => AsAlone(threads[i]))
    /\ [][\E i \in 1..2 : threads'[i] = threads[i]]_vars

\* both threads render a document with marked elements; the second thread
\* seeded the generator between the random.seed and the shuffle of the first,
\* and the first returned an order of the children it does not return alone
RacedRender ==
    /\ threads # NoThreads
    /\ threads[1].pc = "done"
    /\ Shuffles(UpToShuffle(threads[1].xml))
    /\ Shuffles(UpToShuffle(threads[2].xml))
    /\ threads[2].pc = "shuffle"
    /\ threads[1].read = SeedRng(threads[2].seed[1])
    /\ threads[1].read # SeedRng(threads[1].seed[1])
    /\ threads[1].result # RenderedAlone(threads[1].xml, threads[1].seed, 0)

====
